---- MODULE Spec2Model ----
(***************************************************************************)
(* Model of the trading core of forex-trade: the RiskManager               *)
(* (src/lib/trading/risk-management/index.js), the TradingEngine           *)
(* (src/lib/trading/trading-engine.js) with the collaborators it calls,    *)
(* the DCAStrategy (src/lib/trading/strategies/dca.js) and the             *)
(* GridStrategy (src/unnamed/part_006).                                    *)
(*                                                                         *)
(* Numbers.  Prices, lot sizes and money amounts are integers.  The risk   *)
(* state's fractions dailyRiskUsed and currentDrawdown always have the     *)
(* denominator accountBalance (updateDrawdown's high-water mark is         *)
(* accountBalance whenever the drawdown is not 0), so they are stored as   *)
(* their numerators; a comparison  x < 0.05  becomes                       *)
(* x * 100 < 5 * accountBalance.  JavaScript's NaN is the value NaN, which *)
(* fails every comparison, as in the code.                                 *)
(***************************************************************************)
EXTENDS Integers, Sequences, FiniteSets, Bags, TLC

VARIABLES
    rm,         \* the RiskManager's fields: dailyLosses, dailyRiskUsed, currentDrawdown, maxDrawdownReached
    today,      \* the date new Date().toDateString() yields, as a day number
    riskCase,   \* the arguments of a direct RiskManager.validateSignal call: [signal, positions]
    rv,         \* what that call returned and logged, or NotCalled
    bots,       \* the bot objects initializeBot created, by id (NoBot: none yet)
    activeBots, \* the keys of TradingEngine.activeBots
    marketDataStreams,  \* the keys of TradingEngine.marketDataStreams
    brokerConnections,  \* the keys of TradingEngine.brokerConnections
    sockets,    \* the state of each bot's market-data socket: none, open, closed
    connections,        \* MarketDataService.connections: symbol -> the bot whose socket it holds
    brokerLinks,        \* the keys of BrokerIntegration.connections (broker ids)
    cache,      \* MarketDataService.cache: symbol -> the last bar delivered
    barCount,   \* the number of bars the streams have delivered
    calls,      \* the handleMarketDataUpdate invocations in flight
    cleanups,   \* per bot, where a cleanupBot invocation stands
    strategy,   \* a DCAStrategy instance's fields: activeDeals, dealHistory, lastDealClose, performance
    clock,      \* Date.now(), in hours
    botPositions,       \* bot.positions of the bot that runs the DCAStrategy instance
    lastMarketData,     \* bot.lastMarketData of that bot
    grid,       \* a GridStrategy instance's fields (NoGrid: none yet)
    analysis,   \* the strategy a bot was given and what its last analyze call did
    backtest,   \* a BacktestingEngine instance's fields during runBacktest
    indicators  \* a TechnicalIndicators instance: its cache and what its last call returned

riskVars == <<rm, today>>
caseVars == <<riskCase, rv>>
serviceVars == <<sockets, connections, brokerLinks, cache, barCount>>
registryVars == <<activeBots, marketDataStreams, brokerConnections>>
engineVars == <<bots, activeBots, marketDataStreams, brokerConnections, sockets, connections,
                brokerLinks, cache, barCount, calls, cleanups>>

toolVars == <<analysis, backtest, indicators>>

strategyVars == <<strategy, clock, botPositions, lastMarketData, grid, analysis, backtest,
                  indicators>>

vars == <<rm, today, riskCase, rv, bots, activeBots, marketDataStreams, brokerConnections,
          sockets, connections, brokerLinks, cache, barCount, calls, cleanups,
          strategy, clock, botPositions, lastMarketData, grid, analysis, backtest, indicators>>

-----------------------------------------------------------------------------
(* Bounds of the model *)

\* the positions maps given to validateSignal hold up to maxPositions + ExtraPositions entries
ExtraPositions == 0
\* the clock runs over the days 1 .. MaxDay
MaxDay == 2
\* a day's total risk grows to at most MaxRiskUpdates risk amounts
MaxRiskUpdates == 2
\* the streams deliver at most MaxBars bars
MaxBars == 2

-----------------------------------------------------------------------------
(* RiskManager configuration: the defaults of the constructor *)

maxDailyRiskPct == 5
maxDrawdownPct == 15
maxPositions == 5
maxLeverage == 10
minRiskRewardNum == 3
minRiskRewardDen == 2
correlationLimitPct == 70
accountBalance == 10000
maxRiskPerTradePct == 2
maxVolatilityPct == 5
maxBalancePct == 10
maxDailyLosses == 30

NaN == -1
Null == [null |-> TRUE]
NotCalled == [called |-> FALSE]
NoCase == [none |-> TRUE]

Abs(x) == IF x < 0 THEN -x ELSE x
Min(a, b) == IF a <= b THEN a ELSE b

Symbols == {"EURUSD", "GBPUSD", "USDJPY"}

\* correlationMap[pair1] || correlationMap[pair2] || 0, in hundredths
calculateCorrelation(symbol1, symbol2) ==
    LET correlationMap(p) ==
            CASE p = <<"EURUSD", "GBPUSD">> -> 80
              [] p = <<"EURUSD", "EURGBP">> -> 60
              [] p = <<"GBPUSD", "EURGBP">> -> -70
              [] p = <<"USDJPY", "EURJPY">> -> 75
              [] p = <<"AUDUSD", "NZDUSD">> -> 85
              [] OTHER -> 0
        pair1 == correlationMap(<<symbol1, symbol2>>)
        pair2 == correlationMap(<<symbol2, symbol1>>)
    IN  IF pair1 # 0 THEN pair1 ELSE IF pair2 # 0 THEN pair2 ELSE 0

-----------------------------------------------------------------------------
(* The seven checks of validateSignal.  positions is the sequence of the   *)
(* values of the positions Map, in insertion order.                        *)

OpenCount(positions) ==
    Cardinality({i \in DOMAIN positions : positions[i].status = "open"})

\* checkMaxPositions with <= in place of <
checkMaxPositionsOffByOne(currentPositions) ==
    [passed |-> OpenCount(currentPositions) <= maxPositions, reason |-> "maxPositions"]

checkMaxPositions(currentPositions) ==
    [passed |-> OpenCount(currentPositions) < maxPositions, reason |-> "maxPositions"]

checkDailyRisk ==
    [passed |-> rm.dailyRiskUsed * 100 < maxDailyRiskPct * accountBalance, reason |-> "dailyRisk"]

checkDrawdown ==
    [passed |-> rm.currentDrawdown * 100 < maxDrawdownPct * accountBalance, reason |-> "drawdown"]

\* checkRiskRewardRatio with the ratio compared with 1 instead of minRiskRewardRatio
checkRiskRewardRatioBreakEven(signal) ==
    LET risk == Abs(signal.entryPrice - signal.stopLoss)
        reward == Abs(signal.takeProfit - signal.entryPrice)
    IN  [passed |-> IF risk = 0 THEN reward > 0 ELSE reward >= risk, reason |-> "riskReward"]

\* ratio = reward / risk is Infinity for risk = 0 < reward (passes) and NaN for 0 / 0 (fails);
\* a signal without entryPrice, stopLoss or takeProfit (undefined, here NaN) gives NaN too
checkRiskRewardRatio(signal) ==
    LET risk == Abs(signal.entryPrice - signal.stopLoss)
        reward == Abs(signal.takeProfit - signal.entryPrice)
    IN  [passed |-> IF NaN \in {signal.entryPrice, signal.stopLoss, signal.takeProfit} THEN FALSE
                    ELSE IF risk = 0 THEN reward > 0
                    ELSE reward * minRiskRewardDen >= minRiskRewardNum * risk,
         reason |-> "riskReward"]

\* the loop returns at the first position (open or closed) that conflicts
checkPositionCorrelation(signal, currentPositions) ==
    LET conflicts(i) ==
            \/ currentPositions[i].symbol = signal.symbol
            \/ calculateCorrelation(signal.symbol, currentPositions[i].symbol) > correlationLimitPct
    IN  [passed |-> \A i \in DOMAIN currentPositions : ~conflicts(i), reason |-> "correlation"]

\* a comparison with NaN (no entryPrice) fails
checkVolatility(signal) ==
    [passed |-> signal.entryPrice # NaN
                /\ signal.atr * 100 <= maxVolatilityPct * signal.entryPrice,
     reason |-> "volatility"]

checkLeverage(signal) ==
    [passed |-> signal.entryPrice # NaN
                /\ signal.lotSize * signal.entryPrice <= maxLeverage * accountBalance,
     reason |-> "leverage"]

\* calculatePositionSize(signal); an argument without entryPrice and stopLoss (they read as
\* undefined, here NaN) gives stopLossDistance = NaN, which is not === 0, and so NaN
calculatePositionSize(signal) ==
    IF signal.entryPrice = NaN \/ signal.stopLoss = NaN THEN NaN
    ELSE LET riskAmount == (accountBalance * maxRiskPerTradePct) \div 100
             stopLossDistance == Abs(signal.entryPrice - signal.stopLoss)
         IN  IF stopLossDistance = 0 THEN 0
             ELSE Min(riskAmount \div stopLossDistance,
                      Min((accountBalance * maxBalancePct) \div 100,
                          (accountBalance * maxLeverage) \div signal.entryPrice))

calculateRiskAmount(signal, positionSize) ==
    IF positionSize = NaN \/ signal.entryPrice = NaN \/ signal.stopLoss = NaN THEN NaN
    ELSE positionSize * Abs(signal.entryPrice - signal.stopLoss)

validations(signal, currentPositions) ==
    << checkMaxPositions(currentPositions),
       checkDailyRisk,
       checkDrawdown,
       checkRiskRewardRatio(signal),
       checkPositionCorrelation(signal, currentPositions),
       checkVolatility(signal),
       checkLeverage(signal) >>

\* validateSignal stopping at the first failed check, so that only its reason is logged
validateSignalFirstFailure(signal, currentPositions) ==
    LET v == validations(signal, currentPositions)
        failed == SelectSeq(v, LAMBDA x : ~x.passed)
    IN  IF Len(failed) > 0
        THEN [result |-> Null, logged |-> <<failed[1].reason>>]
        ELSE [result |-> [signal EXCEPT !.lotSize = calculatePositionSize(signal)],
              logged |-> <<>>]

\* validateSignal: the result (Null or the signal with its computed lot size) and the
\* reasons it logs
validateSignal(signal, currentPositions) ==
    LET v == validations(signal, currentPositions)
        failedValidations == SelectSeq(v, LAMBDA x : ~x.passed)
        positionSize == calculatePositionSize(signal)
    IN  IF Len(failedValidations) > 0
        THEN [result |-> Null,
              logged |-> [i \in 1..Len(failedValidations) |-> failedValidations[i].reason]]
        ELSE [result |-> [signal EXCEPT !.lotSize = positionSize], logged |-> <<>>]

-----------------------------------------------------------------------------
(* Risk state *)

\* updateDailyRisk(riskAmount) on the risk state r at date day: one entry per day, the
\* entries of the last 30 days kept
updateDailyRisk(r, day, riskAmount) ==
    LET n == Len(r.dailyLosses)
        sameDay == n > 0 /\ r.dailyLosses[n].date = day
        losses == IF sameDay
                  THEN [r.dailyLosses EXCEPT ![n].totalRisk = @ + riskAmount]
                  ELSE Append(r.dailyLosses, [date |-> day, totalRisk |-> riskAmount])
        kept == IF Len(losses) > maxDailyLosses
                THEN SubSeq(losses, Len(losses) - maxDailyLosses + 1, Len(losses))
                ELSE losses
    IN  [r EXCEPT !.dailyLosses = kept, !.dailyRiskUsed = losses[Len(losses)].totalRisk]

\* updateDrawdown(currentBalance): (highWaterMark - currentBalance) / highWaterMark
updateDrawdown(r, currentBalance) ==
    LET highWaterMark == IF currentBalance > accountBalance THEN currentBalance ELSE accountBalance
        drawdown == IF highWaterMark = accountBalance THEN accountBalance - currentBalance ELSE 0
    IN  [r EXCEPT !.currentDrawdown = drawdown,
                  !.maxDrawdownReached = IF drawdown > @ THEN drawdown ELSE @]

resetDailyRisk(r) == [r EXCEPT !.dailyRiskUsed = 0]

InitRiskManager ==
    [dailyLosses |-> <<>>, dailyRiskUsed |-> 0, currentDrawdown |-> 0, maxDrawdownReached |-> 0]

RiskAmounts == {250}
Balances == {8500, 9000, 10500}

-----------------------------------------------------------------------------
(* RiskManager.validateSignal called directly: the signal, the positions   *)
(* map and the risk state are drawn in the initial state.                  *)

Signals ==
    [symbol : {"EURUSD", "GBPUSD"},
     entryPrice : {100},
     stopLoss : {98, 100},
     takeProfit : {100, 102, 103},
     lotSize : {1000, 1001},
     atr : {5, 6}]

PositionKinds ==
    << [symbol |-> "USDJPY", status |-> "open", lotSize |-> 100, entryPrice |-> 100, stopLoss |-> 98],
       [symbol |-> "USDJPY", status |-> "closed", lotSize |-> 100, entryPrice |-> 100, stopLoss |-> 98],
       [symbol |-> "GBPUSD", status |-> "open", lotSize |-> 100, entryPrice |-> 100, stopLoss |-> 98],
       [symbol |-> "GBPUSD", status |-> "closed", lotSize |-> 100, entryPrice |-> 100, stopLoss |-> 98] >>

\* the positions maps of up to n entries, one per multiset of position kinds
RECURSIVE KindSeqs(_)
KindSeqs(n) ==
    IF n = 0 THEN {<<>>}
    ELSE LET shorter == KindSeqs(n - 1)
         IN  shorter \cup
             {Append(s, k) : s \in {x \in shorter : Len(x) = n - 1},
                             k \in DOMAIN PositionKinds}

PositionMaps ==
    LET sorted(s) == \A i \in 1..(Len(s) - 1) : s[i] <= s[i + 1]
    IN  {[i \in DOMAIN s |-> PositionKinds[s[i]]] :
            s \in {x \in KindSeqs(maxPositions + ExtraPositions) : sorted(x)}}

\* the risk states that up to two updateDailyRisk calls and an updateDrawdown call produce
RiskStates ==
    LET r0 == InitRiskManager
        r1 == updateDailyRisk(r0, 1, 250)
        r2 == updateDailyRisk(r1, 1, 250)
    IN  {r0, r1, r2} \cup {updateDrawdown(r, b) : r \in {r0, r1, r2}, b \in Balances}

-----------------------------------------------------------------------------
(* DCAStrategy (src/lib/trading/strategies/dca.js).                        *)
(*                                                                         *)
(* Numbers.  Lot sizes are integers in units of 1/6250 lot, in which the   *)
(* base order (0.1 lot) and the five safety orders (0.2 lot * 1.2^(n-1))   *)
(* are whole.  Prices are integers.  A quotient the code computes is kept  *)
(* as the fraction [num, den] in lowest terms, and compared by cross       *)
(* multiplication; nextSafetyOrderPrice is kept as its numerator over the  *)
(* fixed denominator DeviationScale.  The arithmetic is exact where the    *)
(* code's is in double precision.  Timestamps and Date.now() are hours.    *)
(* The fields timestamp and strategy of the orders, which nothing modelled *)
(* here reads, and the ratio fields of BaseStrategy.performance are left   *)
(* out.                                                                    *)

\* configuration defaults of the constructor
dcaMaxPositions == 10
\* 0.1 lot
baseOrderSize == 625
\* 0.2 lot
safetyOrderSize == 1250
\* priceDeviation / 100 = 2.5 / 100 = 1 / 40
priceDeviationDen == 40
\* safetyOrderStepScale = 1.05 = 21 / 20
safetyOrderStepScaleNum == 21
safetyOrderStepScaleDen == 20
\* safetyOrderVolumeScale = 1.2 = 6 / 5
safetyOrderVolumeScaleNum == 6
safetyOrderVolumeScaleDen == 5
takeProfitPercentage == 3
maxSafetyOrders == 5
stopLossPercentage == 15
cooldownPeriod == 6

RECURSIVE Pow(_, _)
Pow(base, e) == IF e = 0 THEN 1 ELSE base * Pow(base, e - 1)

RECURSIVE GCD(_, _)
GCD(a, b) == IF b = 0 THEN a ELSE GCD(b, a % b)

\* the quotient n / d
Quotient(n, d) == LET g == GCD(n, d) IN [num |-> n \div g, den |-> d \div g]

\* price >= q and price <= q for a quotient q
AtLeast(price, q) == price * q.den >= q.num
AtMost(price, q) == price * q.den <= q.num

\* the denominator of every nextSafetyOrderPrice
DeviationScale == priceDeviationDen * Pow(safetyOrderStepScaleDen, maxSafetyOrders - 1)

\* the loop of calculateNextSafetyOrderPrice: the sum of deviation * stepScale^(i-1) / 100
\* for i = 1 .. safetyOrderNumber, in units of 1 / DeviationScale
RECURSIVE totalDeviation(_)
totalDeviation(safetyOrderNumber) ==
    IF safetyOrderNumber = 0 THEN 0
    ELSE totalDeviation(safetyOrderNumber - 1)
         + Pow(safetyOrderStepScaleNum, safetyOrderNumber - 1)
           * Pow(safetyOrderStepScaleDen, maxSafetyOrders - safetyOrderNumber)

calculateNextSafetyOrderPrice(basePrice, safetyOrderNumber) ==
    basePrice * (DeviationScale - totalDeviation(safetyOrderNumber))

InitDCAStrategy ==
    [activeDeals |-> <<>>,
     dealHistory |-> <<>>,
     lastDealClose |-> 0,
     performance |-> [totalTrades |-> 0, winningTrades |-> 0, losingTrades |-> 0, totalProfit |-> 0]]

\* generateDealId: Date.now() and a random suffix, here the number of the deal
generateDealId(s) == Len(s.activeDeals) + Len(s.dealHistory) + 1

validateMarketConditions(s, marketData) ==
    /\ marketData.symbol # ""
    /\ marketData.close > 0
    /\ Len(s.activeDeals) < dcaMaxPositions

\* Date.now() - new Date(lastDealClose).getTime() < cooldownMs, with Date.now() = now;
\* lastDealClose is 0 for null, and timestamps are positive
isInCooldown(s, now) ==
    IF s.lastDealClose = 0 \/ cooldownPeriod = 0 THEN FALSE
    ELSE now - s.lastDealClose < cooldownPeriod

hasActiveDeal(s, symbol) ==
    \E i \in DOMAIN s.activeDeals :
        s.activeDeals[i].symbol = symbol /\ s.activeDeals[i].status = "active"

\* createBaseOrder: the signal returned and the deal entered in activeDeals
createBaseOrder(s, marketData) ==
    LET close == marketData.close
        dealId == generateDealId(s)
        baseOrder ==
            [dealId |-> dealId,
             orderType |-> "base",
             direction |-> "BUY",
             symbol |-> marketData.symbol,
             entryPrice |-> close,
             lotSize |-> baseOrderSize,
             takeProfitPrice |-> Quotient(close * (100 + takeProfitPercentage), 100),
             stopLossPrice |-> IF stopLossPercentage # 0
                               THEN Quotient(close * (100 - stopLossPercentage), 100)
                               ELSE Null]
        deal ==
            [id |-> dealId,
             symbol |-> marketData.symbol,
             direction |-> "BUY",
             baseOrder |-> baseOrder,
             safetyOrders |-> <<>>,
             totalVolume |-> baseOrderSize,
             averagePrice |-> Quotient(close, 1),
             totalInvested |-> close * baseOrderSize,
             takeProfitPrice |-> baseOrder.takeProfitPrice,
             stopLossPrice |-> baseOrder.stopLossPrice,
             maxSafetyOrders |-> maxSafetyOrders,
             nextSafetyOrderPrice |-> calculateNextSafetyOrderPrice(close, 1),
             safetyOrderCount |-> 0,
             status |-> "active",
             createdAt |-> marketData.timestamp]
    IN  [strategy |-> [s EXCEPT !.activeDeals = Append(@, deal)], signal |-> baseOrder]

\* the position of the deal dealId in activeDeals, 0 if there is none
dealIndex(s, dealId) ==
    IF \E i \in DOMAIN s.activeDeals : s.activeDeals[i].id = dealId
    THEN CHOOSE i \in DOMAIN s.activeDeals : s.activeDeals[i].id = dealId
    ELSE 0

createSafetyOrder(deal, currentPrice) ==
    LET safetyOrderNumber == deal.safetyOrderCount + 1
        volume == (safetyOrderSize * Pow(safetyOrderVolumeScaleNum, safetyOrderNumber - 1))
                  \div Pow(safetyOrderVolumeScaleDen, safetyOrderNumber - 1)
    IN  [dealId |-> deal.id,
         orderType |-> "safety",
         safetyOrderNumber |-> safetyOrderNumber,
         direction |-> "BUY",
         symbol |-> deal.symbol,
         entryPrice |-> currentPrice,
         lotSize |-> volume]

\* addSafetyOrder with the average taken over the volume before the order
addSafetyOrderOldVolume(s, dealId, safetyOrder) ==
    LET i == dealIndex(s, dealId)
        deal == s.activeDeals[i]
        newTotalVolume == deal.totalVolume + safetyOrder.lotSize
        newTotalInvested == deal.totalInvested + safetyOrder.entryPrice * safetyOrder.lotSize
        newAveragePrice == Quotient(newTotalInvested, deal.totalVolume)
        count == deal.safetyOrderCount + 1
    IN  IF i = 0 THEN s
        ELSE [s EXCEPT !.activeDeals[i] =
                [deal EXCEPT
                    !.safetyOrders = Append(@, safetyOrder),
                    !.safetyOrderCount = count,
                    !.totalVolume = newTotalVolume,
                    !.totalInvested = newTotalInvested,
                    !.averagePrice = newAveragePrice,
                    !.takeProfitPrice = Quotient(newAveragePrice.num * (100 + takeProfitPercentage),
                                                 newAveragePrice.den * 100),
                    !.nextSafetyOrderPrice =
                        IF count < deal.maxSafetyOrders
                        THEN calculateNextSafetyOrderPrice(deal.baseOrder.entryPrice, count + 1)
                        ELSE @]]

addSafetyOrder(s, dealId, safetyOrder) ==
    LET i == dealIndex(s, dealId)
        deal == s.activeDeals[i]
        newTotalVolume == deal.totalVolume + safetyOrder.lotSize
        newTotalInvested == deal.totalInvested + safetyOrder.entryPrice * safetyOrder.lotSize
        newAveragePrice == Quotient(newTotalInvested, newTotalVolume)
        count == deal.safetyOrderCount + 1
    IN  IF i = 0 THEN s
        ELSE [s EXCEPT !.activeDeals[i] =
                [deal EXCEPT
                    !.safetyOrders = Append(@, safetyOrder),
                    !.safetyOrderCount = count,
                    !.totalVolume = newTotalVolume,
                    !.totalInvested = newTotalInvested,
                    !.averagePrice = newAveragePrice,
                    !.takeProfitPrice = Quotient(newAveragePrice.num * (100 + takeProfitPercentage),
                                                 newAveragePrice.den * 100),
                    !.nextSafetyOrderPrice =
                        IF count < deal.maxSafetyOrders
                        THEN calculateNextSafetyOrderPrice(deal.baseOrder.entryPrice, count + 1)
                        ELSE @]]

calculateDealProfit(deal, closePrice) == closePrice * deal.totalVolume - deal.totalInvested

createCloseSignal(deal, closePrice, reason) ==
    [dealId |-> deal.id,
     orderType |-> "close",
     direction |-> "SELL",
     symbol |-> deal.symbol,
     exitPrice |-> closePrice,
     lotSize |-> deal.totalVolume,
     profit |-> calculateDealProfit(deal, closePrice),
     reason |-> reason]

\* BaseStrategy.updatePerformanceMetrics: the counters and the profit total
updatePerformanceMetrics(performance, profit) ==
    [performance EXCEPT
        !.totalTrades = @ + 1,
        !.totalProfit = @ + profit,
        !.winningTrades = IF profit > 0 THEN @ + 1 ELSE @,
        !.losingTrades = IF profit > 0 THEN @ ELSE @ + 1]

closeDeal(s, dealId, closePrice, reason, timestamp) ==
    LET i == dealIndex(s, dealId)
        deal == s.activeDeals[i]
        profit == calculateDealProfit(deal, closePrice)
        closed == [deal |-> [deal EXCEPT !.status = "closed"],
                   closePrice |-> closePrice,
                   profit |-> profit,
                   reason |-> reason,
                   closedAt |-> timestamp]
    IN  IF i = 0 THEN s
        ELSE [s EXCEPT
                !.performance = updatePerformanceMetrics(@, profit),
                !.dealHistory = Append(@, closed),
                !.activeDeals = SelectSeq(@, LAMBDA d : d.id # dealId),
                !.lastDealClose = timestamp]

\* the safety-order condition of procesActiveDeals without the limit on the count
wantsSafetyOrderUnlimited(deal, close) ==
    close * DeviationScale <= deal.nextSafetyOrderPrice

\* the safety-order condition of procesActiveDeals
wantsSafetyOrder(deal, close) ==
    /\ deal.safetyOrderCount < deal.maxSafetyOrders
    /\ close * DeviationScale <= deal.nextSafetyOrderPrice

\* the body of the loop of procesActiveDeals for the deal dealId
procesDeal(acc, dealId, marketData) ==
    LET s == acc.strategy
        deal == s.activeDeals[dealIndex(s, dealId)]
        close == marketData.close
        timestamp == marketData.timestamp
    IN  IF deal.symbol # marketData.symbol THEN acc
        ELSE IF AtLeast(close, deal.takeProfitPrice)
        THEN [strategy |-> closeDeal(s, dealId, close, "take_profit", timestamp),
              signals |-> Append(acc.signals, createCloseSignal(deal, close, "take_profit"))]
        ELSE IF deal.stopLossPrice # Null /\ AtMost(close, deal.stopLossPrice)
        THEN [strategy |-> closeDeal(s, dealId, close, "stop_loss", timestamp),
              signals |-> Append(acc.signals, createCloseSignal(deal, close, "stop_loss"))]
        ELSE IF wantsSafetyOrder(deal, close)
        THEN [strategy |-> addSafetyOrder(s, dealId, createSafetyOrder(deal, close)),
              signals |-> Append(acc.signals, createSafetyOrder(deal, close))]
        ELSE acc

\* procesActiveDeals: the loop over the entries of activeDeals, in insertion order
RECURSIVE procesDeals(_, _, _)
procesDeals(acc, dealIds, marketData) ==
    IF dealIds = <<>> THEN acc
    ELSE procesDeals(procesDeal(acc, Head(dealIds), marketData), Tail(dealIds), marketData)

procesActiveDeals(s, marketData) ==
    procesDeals([strategy |-> s, signals |-> <<>>],
                [i \in DOMAIN s.activeDeals |-> s.activeDeals[i].id],
                marketData)

\* analyze at the time now; startSignal is what checkDealStartCondition makes of the bar's
\* indicators
analyze(s, marketData, now, startSignal) ==
    IF ~validateMarketConditions(s, marketData) THEN [strategy |-> s, signal |-> Null]
    ELSE IF isInCooldown(s, now) THEN [strategy |-> s, signal |-> Null]
    ELSE IF startSignal /\ ~hasActiveDeal(s, marketData.symbol)
    THEN createBaseOrder(s, marketData)
    ELSE LET dealSignals == procesActiveDeals(s, marketData)
         IN  [strategy |-> dealSignals.strategy,
              signal |-> IF Len(dealSignals.signals) > 0 THEN dealSignals.signals[1] ELSE Null]

-----------------------------------------------------------------------------
(* GridStrategy (src/unnamed/part_006).  Prices are integers in pips       *)
(* (getPipValue() = 0.0001 is the unit), lot sizes are in units of 1/6250  *)
(* lot.  The grid is arithmetic, the martingale multiplier is 1.  An order *)
(* id, built in the code from a level or order id and Date.now(), is the   *)
(* number of the order.  The time fields of orders and positions, which    *)
(* nothing reads, are left out.                                            *)

\* configuration defaults of the constructor
configGridLevels == 10
gridSpacing == 50
gridOrderSize == 625
takeProfitPips == 30
stopLossPips == 500
maxGridOrders == 20
\* shouldRebalanceGrid: one hour between rebalances
rebalanceCooldown == 1

NoGrid == [none |-> TRUE]

\* new GridStrategy(config), with config.hedging = hedging and the other defaults
NewGrid(hedging) ==
    [config |-> [centerPrice |-> 0, upperBound |-> 0, lowerBound |-> 0, hedging |-> hedging],
     gridOrders |-> <<>>,
     gridLevels |-> <<>>,
     isInitialized |-> FALSE,
     lastRebalance |-> 0,
     positions |-> <<>>,
     orderCount |-> 0,
     performance |-> [totalTrades |-> 0, winningTrades |-> 0, losingTrades |-> 0, totalProfit |-> 0]]

gridValidateMarketConditions(g, marketData) ==
    /\ marketData.symbol # ""
    /\ marketData.close > 0
    /\ Len(g.gridOrders) < maxGridOrders

\* calculateGridBounds: the configured bounds if both are set, else the bounds computed from
\* the indicators, here a range of (gridLevels - 1) * gridSpacing pips on each side
calculateGridBounds(g, currentPrice) ==
    IF g.config.upperBound # 0 /\ g.config.lowerBound # 0
    THEN [upper |-> g.config.upperBound, lower |-> g.config.lowerBound]
    ELSE [upper |-> currentPrice + (configGridLevels - 1) * gridSpacing,
          lower |-> currentPrice - (configGridLevels - 1) * gridSpacing]

\* config.gridLevels: the value given to the constructor, else the default
gridLevelCount(config) ==
    IF "gridLevels" \in DOMAIN config THEN config.gridLevels ELSE configGridLevels

\* generateGridLevels for gridType 'arithmetic'; level i is gridLevels[i + 1]
generateGridLevels(g, bounds) ==
    LET count == gridLevelCount(g.config)
        spacing == (bounds.upper - bounds.lower) \div (count - 1)
    IN  [k \in 1..count |->
            [id |-> k - 1,
             price |-> bounds.lower + spacing * (k - 1),
             level |-> k - 1,
             type |-> IF k = 1 THEN "lower_bound"
                      ELSE IF k = count THEN "upper_bound" ELSE "grid",
             hasOrder |-> FALSE,
             orderType |-> IF bounds.lower + spacing * (k - 1) < g.config.centerPrice
                           THEN "BUY" ELSE "SELL"]]

calculateGridOrderSize(level) == gridOrderSize

\* the variant that gives the two bounds an order as well
RECURSIVE initializeGridOrdersOnBounds(_, _, _)
initializeGridOrdersOnBounds(g, symbol, k) ==
    IF k > Len(g.gridLevels) THEN g
    ELSE LET level == [g.gridLevels[k] EXCEPT !.hasOrder = TRUE]
             order == [id |-> g.orderCount + 1,
                       symbol |-> symbol,
                       level |-> level,
                       direction |-> level.orderType,
                       entryPrice |-> level.price,
                       lotSize |-> calculateGridOrderSize(level),
                       status |-> "pending"]
         IN  initializeGridOrdersOnBounds(
                 [g EXCEPT !.gridOrders = Append(@, order),
                           !.gridLevels[k] = level,
                           !.orderCount = @ + 1],
                 symbol, k + 1)

\* initializeGridOrders: a pending order for every level between the bounds
RECURSIVE initializeGridOrders(_, _, _)
initializeGridOrders(g, symbol, k) ==
    IF k > Len(g.gridLevels) THEN g
    ELSE LET level == [g.gridLevels[k] EXCEPT !.hasOrder = TRUE]
             order == [id |-> g.orderCount + 1,
                       symbol |-> symbol,
                       level |-> level,
                       direction |-> level.orderType,
                       entryPrice |-> level.price,
                       lotSize |-> calculateGridOrderSize(level),
                       status |-> "pending"]
         IN  IF level.type # "lower_bound" /\ level.type # "upper_bound"
             THEN initializeGridOrders(
                      [g EXCEPT !.gridOrders = Append(@, order),
                                !.gridLevels[k] = level,
                                !.orderCount = @ + 1],
                      symbol, k + 1)
             ELSE initializeGridOrders(g, symbol, k + 1)

initializeGrid(g, marketData) ==
    LET bounds == calculateGridBounds(g, marketData.close)
        configured == [g EXCEPT !.config.centerPrice = marketData.close,
                                !.config.upperBound = bounds.upper,
                                !.config.lowerBound = bounds.lower]
        levelled == [configured EXCEPT !.gridLevels = generateGridLevels(configured, bounds)]
    IN  [initializeGridOrders(levelled, marketData.symbol, 1) EXCEPT !.isInitialized = TRUE]

calculateDynamicSpacing == gridSpacing

\* placeOppositeGridOrder for the filled order executedOrder
placeOppositeGridOrder(g, executedOrder) ==
    LET oppositeDirection == IF executedOrder.direction = "BUY" THEN "SELL" ELSE "BUY"
        spacing == calculateDynamicSpacing
        oppositePrice == IF executedOrder.direction = "BUY"
                         THEN executedOrder.executionPrice + spacing
                         ELSE executedOrder.executionPrice - spacing
        order == [id |-> g.orderCount + 1,
                  symbol |-> executedOrder.symbol,
                  level |-> [executedOrder.level EXCEPT !.price = oppositePrice],
                  direction |-> oppositeDirection,
                  entryPrice |-> oppositePrice,
                  lotSize |-> executedOrder.lotSize,
                  status |-> "pending",
                  isOpposite |-> TRUE,
                  parentOrderId |-> executedOrder.id]
    IN  IF oppositePrice >= g.config.lowerBound /\ oppositePrice <= g.config.upperBound
        THEN [g EXCEPT !.gridOrders = Append(@, order), !.orderCount = @ + 1]
        ELSE g

\* executeGridOrder for the order gridOrders[k]
executeGridOrder(g, k, executionPrice) ==
    LET order == [executionPrice |-> executionPrice]
                 @@ [g.gridOrders[k] EXCEPT !.status = "filled"]
        takeProfitPrice == IF order.direction = "BUY" THEN executionPrice + takeProfitPips
                           ELSE executionPrice - takeProfitPips
        stopLossPrice == IF stopLossPips = 0 THEN 0
                         ELSE IF order.direction = "BUY" THEN executionPrice - stopLossPips
                         ELSE executionPrice + stopLossPips
        position == [orderId |-> order.id,
                     takeProfitPrice |-> takeProfitPrice,
                     stopLossPrice |-> stopLossPrice,
                     unrealizedPnL |-> 0] @@ order
        filled == [g EXCEPT !.gridOrders[k] = order, !.positions = Append(@, position)]
    IN  [grid |-> IF g.config.hedging THEN placeOppositeGridOrder(filled, order) ELSE filled,
         signal |-> [direction |-> order.direction,
                     symbol |-> order.symbol,
                     entryPrice |-> executionPrice,
                     lotSize |-> order.lotSize,
                     takeProfitPrice |-> takeProfitPrice,
                     stopLossPrice |-> stopLossPrice,
                     gridLevel |-> order.level.level]]

\* checkGridOrders: the first pending order whose level the close has reached is executed
checkGridOrders(g, marketData) ==
    LET priceHit(k) ==
            /\ g.gridOrders[k].status = "pending"
            /\ IF g.gridOrders[k].direction = "BUY"
               THEN marketData.close <= g.gridOrders[k].entryPrice
               ELSE marketData.close >= g.gridOrders[k].entryPrice
        hits == {k \in DOMAIN g.gridOrders : priceHit(k)}
    IN  IF hits = {} THEN [grid |-> g, signal |-> Null]
        ELSE executeGridOrder(g, CHOOSE k \in hits : \A other \in hits : k <= other,
                              marketData.close)

calculatePositionPnL(position, currentPrice) ==
    IF position.direction = "BUY"
    THEN (currentPrice - position.entryPrice) * position.lotSize
    ELSE (position.entryPrice - currentPrice) * position.lotSize

replaceGridOrder(g, closedPosition) ==
    LET order == [id |-> g.orderCount + 1,
                  symbol |-> closedPosition.symbol,
                  level |-> closedPosition.level,
                  direction |-> closedPosition.level.orderType,
                  entryPrice |-> closedPosition.level.price,
                  lotSize |-> calculateGridOrderSize(closedPosition.level),
                  status |-> "pending",
                  isReplacement |-> TRUE,
                  parentPositionId |-> closedPosition.orderId]
    IN  [g EXCEPT !.gridOrders = Append(@, order), !.orderCount = @ + 1]

\* createExitSignal for the position positions[k]
createExitSignal(g, k, exitPrice, reason) ==
    LET position == g.positions[k]
        profit == calculatePositionPnL(position, exitPrice)
        closed == [g EXCEPT
                      !.positions = SelectSeq(@, LAMBDA p : p.orderId # position.orderId),
                      !.performance = updatePerformanceMetrics(@, profit)]
    IN  [grid |-> IF reason = "take_profit" THEN replaceGridOrder(closed, position) ELSE closed,
         signal |-> [direction |-> IF position.direction = "BUY" THEN "SELL" ELSE "BUY",
                     symbol |-> position.symbol,
                     exitPrice |-> exitPrice,
                     lotSize |-> position.lotSize,
                     profit |-> profit,
                     reason |-> reason]]

\* the test of checkExitSignals with every position taken for one of the grid
isGridPositionAlways(position) == TRUE

\* the test position.strategy !== 'grid' of checkExitSignals, negated
isGridPosition(position) ==
    "strategy" \in DOMAIN position /\ position.strategy = "grid"

\* checkExitSignals: the first position of the grid whose take profit or stop loss is hit
checkExitSignals(g, marketData) ==
    LET close == marketData.close
        takeProfitHit(p) ==
            /\ p.takeProfitPrice # 0
            /\ IF p.direction = "BUY" THEN close >= p.takeProfitPrice
               ELSE close <= p.takeProfitPrice
        stopLossHit(p) ==
            /\ p.stopLossPrice # 0
            /\ IF p.direction = "BUY" THEN close <= p.stopLossPrice
               ELSE close >= p.stopLossPrice
        exits == {k \in DOMAIN g.positions :
                     /\ isGridPosition(g.positions[k])
                     /\ takeProfitHit(g.positions[k]) \/ stopLossHit(g.positions[k])}
        first == CHOOSE k \in exits : \A other \in exits : k <= other
    IN  IF exits = {} THEN [grid |-> g, signal |-> Null]
        ELSE createExitSignal(g, first, close,
                              IF takeProfitHit(g.positions[first]) THEN "take_profit"
                              ELSE "stop_loss")

\* shouldRebalanceGrid at the time now; volatilityChange tells whether the ATR has changed
\* by more than 0.3
shouldRebalanceGrid(g, marketData, now, volatilityChange) ==
    IF g.lastRebalance # 0 /\ now - g.lastRebalance < rebalanceCooldown THEN FALSE
    ELSE \/ marketData.close > g.config.upperBound
         \/ marketData.close < g.config.lowerBound
         \/ volatilityChange

rebalanceGrid(g, marketData, now) ==
    LET bounds == calculateGridBounds(g, marketData.close)
        cleared == [g EXCEPT
                      !.gridOrders = SelectSeq(@, LAMBDA order : order.status # "pending"),
                      !.config.centerPrice = marketData.close,
                      !.config.upperBound = bounds.upper,
                      !.config.lowerBound = bounds.lower]
        levelled == [cleared EXCEPT !.gridLevels = generateGridLevels(cleared, bounds)]
    IN  [initializeGridOrders(levelled, marketData.symbol, 1) EXCEPT !.lastRebalance = now]

\* GridStrategy.analyze at the time now: the strategy afterwards; the signal it returns
\* goes to the caller
gridAnalyze(g, marketData, now, volatilityChange) ==
    IF ~gridValidateMarketConditions(g, marketData) THEN g
    ELSE IF ~g.isInitialized THEN initializeGrid(g, marketData)
    ELSE IF shouldRebalanceGrid(g, marketData, now, volatilityChange)
    THEN rebalanceGrid(g, marketData, now)
    ELSE checkExitSignals(checkGridOrders(g, marketData).grid, marketData).grid

NoAnalysis == [none |-> TRUE]
NoBacktest == [none |-> TRUE]
NoIndicators == [none |-> TRUE]

InitStrategy ==
    /\ strategy = InitDCAStrategy
    /\ clock = 1
    /\ botPositions = <<>>
    /\ lastMarketData = Null
    /\ grid = NoGrid

\* no strategy given to a bot, no backtest begun, no TechnicalIndicators made
InitTools ==
    /\ analysis = NoAnalysis
    /\ backtest = NoBacktest
    /\ indicators = NoIndicators

BotIds == {"A", "B"}
NoBot == [none |-> TRUE]
NoBar == 0

InitEngine ==
    /\ bots = [b \in BotIds |-> NoBot]
    /\ activeBots = {}
    /\ marketDataStreams = {}
    /\ brokerConnections = {}
    /\ sockets = [b \in BotIds |-> "none"]
    /\ connections = [s \in Symbols |-> "none"]
    /\ brokerLinks = {}
    /\ cache = [s \in Symbols |-> NoBar]
    /\ barCount = 0
    /\ calls = EmptyBag
    /\ cleanups = [b \in BotIds |-> "idle"]
    /\ InitStrategy

InitRisk ==
    /\ rm \in RiskStates
    /\ today = 1
    /\ riskCase \in [signal : Signals, positions : PositionMaps]
    /\ rv = NotCalled
    /\ InitEngine
    /\ InitTools

RiskValidate ==
    /\ riskCase # NoCase
    /\ rv' = [called |-> TRUE] @@ validateSignal(riskCase.signal, riskCase.positions)
    /\ UNCHANGED <<rm, today, riskCase, engineVars, strategyVars>>

NextRisk == RiskValidate

SpecRisk == InitRisk /\ [][NextRisk]_vars

-----------------------------------------------------------------------------
(* Claims about RiskManager.validateSignal, under SpecRisk *)

\* C1: validateSignal returns null for every signal when the positions map holds
\* maxPositions (or more) positions with status 'open', whatever the other fields are.
C1_FullBookRejected ==
    (rv.called /\ OpenCount(riskCase.positions) >= maxPositions) => rv.result = Null

\* a call on exactly maxPositions open positions in which every other check passed
C1_Witness ==
    /\ rv.called
    /\ OpenCount(riskCase.positions) = maxPositions
    /\ rv.result = Null
    /\ rv.logged = <<"maxPositions">>

RatioBelowMinimum(signal) ==
    LET risk == Abs(signal.entryPrice - signal.stopLoss)
        reward == Abs(signal.takeProfit - signal.entryPrice)
    IN  risk > 0 /\ 2 * reward < 3 * risk

\* C2: validateSignal returns null for every signal whose ratio
\* |takeProfit - entryPrice| / |entryPrice - stopLoss| is below 1.5, whatever the open
\* positions and the risk state are.
C2_LowRiskRewardRejected ==
    (rv.called /\ RatioBelowMinimum(riskCase.signal)) => rv.result = Null

\* a call rejected for its ratio alone, on an empty book and an unused risk budget
C2_Witness ==
    /\ rv.called
    /\ RatioBelowMinimum(riskCase.signal)
    /\ riskCase.positions = <<>>
    /\ rm = InitRiskManager
    /\ rv.result = Null
    /\ rv.logged = <<"riskReward">>

\* the reasons of the checks that fail on the call's arguments, each check taken alone
FailedChecks ==
    LET s == riskCase.signal
        p == riskCase.positions
    IN  {c.reason : c \in {x \in { checkMaxPositions(p), checkDailyRisk, checkDrawdown,
                                    checkRiskRewardRatio(s), checkPositionCorrelation(s, p),
                                    checkVolatility(s), checkLeverage(s) } : ~x.passed}}

\* C3: validateSignal returns a validated signal if and only if all seven checks pass, and
\* on rejection it reports the reason of every failed check, not only of the first.
C3_AllChecksDecideAndReport ==
    rv.called =>
        /\ (rv.result # Null) <=> (FailedChecks = {})
        /\ {rv.logged[i] : i \in DOMAIN rv.logged} = FailedChecks
        /\ Len(rv.logged) = Cardinality(FailedChecks)

\* a call in which all seven checks failed and all seven reasons were logged
C3_Witness ==
    /\ rv.called
    /\ rv.result = Null
    /\ Len(rv.logged) = 7
    /\ Cardinality(FailedChecks) = 7

-----------------------------------------------------------------------------
(* TradingEngine.  A bot object is reached through the registry            *)
(* (activeBots) by the operations and through the reference a              *)
(* handleMarketDataUpdate invocation took when it began.  An invocation    *)
(* runs from one await to the next in one step: it awaits                  *)
(* strategy.analyze, brokerIntegration.placeOrder and storeTrade.  The     *)
(* invocations in flight form a bag: two of them at the same await for the *)
(* same bot hold the same data.                                            *)

BotSymbol == "EURUSD"
BrokerId == "oanda"
\* JavaScript's undefined, where a destructured field is missing; it reads as NaN in arithmetic
Undefined == NaN

InitPerformance ==
    [totalTrades |-> 0, winningTrades |-> 0, losingTrades |-> 0, totalProfit |-> 0,
     totalLoss |-> 0, maxDrawdown |-> 0, currentDrawdown |-> 0]

NewBot ==
    [status |-> "initialized", active |-> FALSE, symbol |-> BotSymbol,
     performance |-> InitPerformance, positions |-> <<>>, lastMarketData |-> NoBar]

\* arithmetic and comparison on values that may be NaN
Sub(a, b) == IF a = NaN \/ b = NaN THEN NaN ELSE a - b
Add(a, b) == IF a = NaN \/ b = NaN THEN NaN ELSE a + b
Mul(a, b) == IF a = NaN \/ b = NaN THEN NaN ELSE a * b
Less(a, b) == a # NaN /\ b # NaN /\ a < b

\* initializeBot: connects the broker and the stream, then registers the bot
InitializeBot(b) ==
    /\ bots[b] = NoBot
    /\ bots' = [bots EXCEPT ![b] = NewBot]
    /\ brokerLinks' = brokerLinks \cup {BrokerId}
    /\ sockets' = [sockets EXCEPT ![b] = "open"]
    /\ connections' = [connections EXCEPT ![BotSymbol] = b]
    /\ activeBots' = activeBots \cup {b}
    /\ brokerConnections' = brokerConnections \cup {b}
    /\ marketDataStreams' = marketDataStreams \cup {b}
    /\ UNCHANGED <<riskVars, caseVars, strategyVars, cache, barCount, calls, cleanups>>

\* startBot: BaseStrategy.start() sets active and cannot throw, so the catch is not taken
startBot(bot) == [bot EXCEPT !.active = TRUE, !.status = "running"]

StartBot(b) ==
    /\ b \in activeBots
    /\ bots' = [bots EXCEPT ![b] = startBot(@)]
    /\ UNCHANGED <<riskVars, caseVars, strategyVars, registryVars, serviceVars, calls, cleanups>>

stopBot(bot) == [bot EXCEPT !.active = FALSE, !.status = "stopped"]

StopBot(b) ==
    /\ b \in activeBots
    /\ bots' = [bots EXCEPT ![b] = stopBot(@)]
    /\ UNCHANGED <<riskVars, caseVars, strategyVars, registryVars, serviceVars, calls, cleanups>>

\* updateBotPerformance: the drawdown fields are written, then bot.strategy.getTrades(),
\* which no strategy class defines, throws a TypeError once totalTrades > 0
updateBotPerformance(bot) ==
    LET performance == bot.performance
        totalPnL == Sub(performance.totalProfit, performance.totalLoss)
    IN  [bot |-> [bot EXCEPT !.performance.maxDrawdown =
                                 IF Less(totalPnL, @) THEN totalPnL ELSE @,
                             !.performance.currentDrawdown = totalPnL],
         threw |-> performance.totalTrades > 0]

\* the catch of handleMarketDataUpdate puts the bot back to work
catchErrorResume(bot) == [bot EXCEPT !.status = "running"]

\* the catch of handleMarketDataUpdate
catchError(bot) == [bot EXCEPT !.status = "error"]

\* the end of handleMarketDataUpdate's try block, and its catch when the update throws
finishUpdate(bot) ==
    LET u == updateBotPerformance(bot)
    IN  IF u.threw THEN catchError(u.bot) ELSE u.bot

\* the handleMarketDataUpdate invocations that have begun and not returned
InFlightCalls == BagToSet(calls)
InFlight(b) == {call \in InFlightCalls : call.bot = b}

\* an invocation begins, moves from one await to the next, returns
Began(call) == calls (+) SetToBag({call})
Moved(call, next) == (calls (-) SetToBag({call})) (+) SetToBag({next})
Returned(call) == calls (-) SetToBag({call})

\* handleMarketDataUpdate without the status test of its guard
acceptsAnyStatus(b) == b \in activeBots

\* the guard of handleMarketDataUpdate
accepts(b) == b \in activeBots /\ bots[b].status = "running"

\* the stream's 'price' handler: callback(marketData), that is handleMarketDataUpdate up to
\* its first await, then updateCache
DeliverBar(b) ==
    /\ sockets[b] = "open"
    /\ barCount < MaxBars
    /\ barCount' = barCount + 1
    /\ cache' = [cache EXCEPT ![BotSymbol] = barCount + 1]
    /\ IF accepts(b)
       THEN /\ calls' = Began([pc |-> "analyze", bot |-> b])
            /\ bots' = [bots EXCEPT ![b].lastMarketData = barCount + 1]
       ELSE UNCHANGED <<bots, calls>>
    /\ UNCHANGED <<riskVars, caseVars, strategyVars, registryVars, sockets, connections, brokerLinks, cleanups>>

\* the signals a strategy's analyze resolves to for the bot's symbol
EngineSignals ==
    {s \in Signals : s.symbol = BotSymbol /\ s.stopLoss = 98 /\ s.takeProfit \in {102, 103}
                     /\ s.lotSize = 1000 /\ s.atr = 5}

\* strategy.analyze rejects: the catch sets the status
AnalyzeThrows(b) ==
    \E call \in InFlight(b) :
        /\ call.pc = "analyze"
        /\ bots' = [bots EXCEPT ![b] = catchError(@)]
        /\ calls' = Returned(call)
        /\ UNCHANGED <<riskVars, caseVars, strategyVars, registryVars, serviceVars, cleanups>>

\* strategy.analyze resolves to null
AnalyzeNoSignal(b) ==
    \E call \in InFlight(b) :
        /\ call.pc = "analyze"
        /\ bots' = [bots EXCEPT ![b] = finishUpdate(@)]
        /\ calls' = Returned(call)
        /\ UNCHANGED <<riskVars, caseVars, strategyVars, registryVars, serviceVars, cleanups>>

\* strategy.analyze resolves to a signal: validateSignal, then executeSignal up to its
\* await of placeOrder.  executeSignal passes the account balance, a number, where
\* calculatePositionSize expects the signal.
AnalyzeSignal(b) ==
    \E call \in InFlight(b) :
        /\ call.pc = "analyze"
        /\ \E signal \in EngineSignals :
              LET validated == validateSignal(signal, bots[b].positions).result
                  positionSize ==
                      calculatePositionSize([entryPrice |-> Undefined, stopLoss |-> Undefined])
              IN  IF validated = Null
                  THEN /\ bots' = [bots EXCEPT ![b] = finishUpdate(@)]
                       /\ calls' = Returned(call)
                  ELSE /\ calls' = Moved(call, [pc |-> "placeOrder", bot |-> b,
                                                    signal |-> validated,
                                                    positionSize |-> positionSize])
                       /\ UNCHANGED bots
        /\ UNCHANGED <<riskVars, caseVars, strategyVars, registryVars, serviceVars, cleanups>>

\* the catch marks every registered bot, not only the one whose order failed
PlaceOrderFailsEngineWide(b) ==
    \E call \in InFlight(b) :
        /\ call.pc = "placeOrder"
        /\ bots' = [x \in BotIds |-> IF x \in activeBots THEN catchError(bots[x]) ELSE bots[x]]
        /\ calls' = Returned(call)
        /\ UNCHANGED <<riskVars, caseVars, strategyVars, registryVars, serviceVars, cleanups>>

\* placeOrder rejects: executeSignal rethrows, the catch of handleMarketDataUpdate runs
PlaceOrderFails(b) ==
    \E call \in InFlight(b) :
        /\ call.pc = "placeOrder"
        /\ bots' = [bots EXCEPT ![b] = catchError(@)]
        /\ calls' = Returned(call)
        /\ UNCHANGED <<riskVars, caseVars, strategyVars, registryVars, serviceVars, cleanups>>

\* the trade executeSignal records; signal.price is undefined (signals carry entryPrice);
\* its id, the broker's orderID, is the number of the trade
newTrade(bot, call) ==
    [id |-> bot.performance.totalTrades + 1,
     symbol |-> bot.symbol, status |-> "open", lotSize |-> call.positionSize,
     entryPrice |-> Undefined, stopLoss |-> call.signal.stopLoss]

recordTrade(bot, call) ==
    [bot EXCEPT !.positions = Append(@, newTrade(bot, call)),
                !.performance.totalTrades = @ + 1]

\* placeOrder resolves: the trade is recorded, then storeTrade is awaited
PlaceOrderDone(b) ==
    \E call \in InFlight(b) :
        /\ call.pc = "placeOrder"
        /\ bots' = [bots EXCEPT ![b] = recordTrade(@, call)]
        /\ calls' = Moved(call, [pc |-> "storeTrade", bot |-> b])
        /\ UNCHANGED <<riskVars, caseVars, strategyVars, registryVars, serviceVars, cleanups>>

\* storeTrade returns (it catches its own errors); executeSignal returns the trade
StoreTradeDone(b) ==
    \E call \in InFlight(b) :
        /\ call.pc = "storeTrade"
        /\ bots' = [bots EXCEPT ![b] = finishUpdate(@)]
        /\ calls' = Returned(call)
        /\ UNCHANGED <<riskVars, caseVars, strategyVars, registryVars, serviceVars, cleanups>>

calculateProfit(position, exitPrice) == Mul(Sub(exitPrice, position.entryPrice), position.lotSize)

RemoveAt(s, i) == [j \in 1..(Len(s) - 1) |-> IF j < i THEN s[j] ELSE s[j + 1]]

\* closePosition on a position the bot holds (all positions here are BUY-sized alike)
closePosition(bot, i, exitPrice) ==
    LET profit == calculateProfit(bot.positions[i], exitPrice)
        won == profit # NaN /\ profit > 0
    IN  [bot EXCEPT !.performance.winningTrades = IF won THEN @ + 1 ELSE @,
                    !.performance.totalProfit = IF won THEN Add(@, profit) ELSE @,
                    !.performance.losingTrades = IF won THEN @ ELSE @ + 1,
                    !.performance.totalLoss =
                        IF won THEN @ ELSE Add(@, IF profit = NaN THEN NaN ELSE Abs(profit)),
                    !.positions = RemoveAt(@, i)]

ClosePosition(b) ==
    /\ bots[b] # NoBot
    /\ \E i \in DOMAIN bots[b].positions :
          bots' = [bots EXCEPT ![b] = closePosition(@, i, 101)]
    /\ UNCHANGED <<riskVars, caseVars, strategyVars, registryVars, serviceVars, calls, cleanups>>

\* cleanupBot up to its await of stopBot
CleanupStop(b) ==
    /\ b \in activeBots
    /\ cleanups[b] = "idle"
    /\ bots' = [bots EXCEPT ![b] = stopBot(@)]
    /\ cleanups' = [cleanups EXCEPT ![b] = "stopped"]
    /\ UNCHANGED <<riskVars, caseVars, strategyVars, registryVars, serviceVars, calls>>

\* MarketDataService.disconnect(symbol): the socket registered for the symbol is closed
disconnectedSockets(symbol) ==
    IF connections[symbol] = "none" THEN sockets
    ELSE [sockets EXCEPT ![connections[symbol]] = "closed"]

\* cleanupBot after the await: the stream and the broker connection are disconnected and
\* the three registry entries deleted, whatever invocations are in flight
CleanupRelease(b) ==
    /\ cleanups[b] = "stopped"
    /\ cleanups' = [cleanups EXCEPT ![b] = "idle"]
    /\ IF b \in marketDataStreams
       THEN /\ sockets' = disconnectedSockets(bots[b].symbol)
            /\ connections' = [connections EXCEPT ![bots[b].symbol] = "none"]
       ELSE UNCHANGED <<sockets, connections>>
    /\ marketDataStreams' = marketDataStreams \ {b}
    /\ brokerLinks' = IF b \in brokerConnections THEN brokerLinks \ {BrokerId} ELSE brokerLinks
    /\ brokerConnections' = brokerConnections \ {b}
    /\ activeBots' = activeBots \ {b}
    /\ UNCHANGED <<riskVars, caseVars, strategyVars, bots, cache, barCount, calls>>

\* the socket's 'disconnect' handler: after 5 s connectToStream(symbol, callback) again
Reconnect(b) ==
    /\ sockets[b] = "closed"
    /\ sockets' = [sockets EXCEPT ![b] = "open"]
    /\ connections' = [connections EXCEPT ![bots[b].symbol] = b]
    /\ UNCHANGED <<riskVars, caseVars, strategyVars, bots, registryVars, brokerLinks, cache, barCount, calls,
                   cleanups>>

(* The RiskManager's update operations, called on the engine's riskManager *)

UpdateDailyRisk ==
    /\ \E riskAmount \in RiskAmounts :
          /\ updateDailyRisk(rm, today, riskAmount).dailyRiskUsed <= MaxRiskUpdates * riskAmount
          /\ rm' = updateDailyRisk(rm, today, riskAmount)
    /\ UNCHANGED <<today, caseVars, strategyVars, engineVars>>

UpdateDrawdown ==
    /\ \E currentBalance \in Balances : rm' = updateDrawdown(rm, currentBalance)
    /\ UNCHANGED <<today, caseVars, strategyVars, engineVars>>

ResetDailyRisk ==
    /\ rm' = resetDailyRisk(rm)
    /\ UNCHANGED <<today, caseVars, strategyVars, engineVars>>

\* the calendar day changes
NextDay ==
    /\ today < MaxDay
    /\ today' = today + 1
    /\ UNCHANGED <<rm, caseVars, strategyVars, engineVars>>

Init ==
    /\ rm = InitRiskManager
    /\ today = 1
    /\ riskCase = NoCase
    /\ rv = NotCalled
    /\ InitEngine
    /\ InitTools

Next ==
    \/ \E b \in BotIds : InitializeBot(b)
    \/ \E b \in BotIds : StartBot(b)
    \/ \E b \in BotIds : StopBot(b)
    \/ \E b \in BotIds : DeliverBar(b)
    \/ \E b \in BotIds : AnalyzeThrows(b)
    \/ \E b \in BotIds : AnalyzeNoSignal(b)
    \/ \E b \in BotIds : AnalyzeSignal(b)
    \/ \E b \in BotIds : PlaceOrderFails(b)
    \/ \E b \in BotIds : PlaceOrderDone(b)
    \/ \E b \in BotIds : StoreTradeDone(b)
    \/ \E b \in BotIds : ClosePosition(b)
    \/ \E b \in BotIds : CleanupStop(b)
    \/ \E b \in BotIds : CleanupRelease(b)
    \/ \E b \in BotIds : Reconnect(b)

Spec == Init /\ [][Next]_vars

\* one bot trading while the RiskManager's update operations are called on the engine's
\* riskManager (the engine itself never calls them)
NextEmergency ==
    \/ InitializeBot("A")
    \/ StartBot("A")
    \/ DeliverBar("A")
    \/ AnalyzeNoSignal("A")
    \/ AnalyzeSignal("A")
    \/ PlaceOrderDone("A")
    \/ StoreTradeDone("A")
    \/ UpdateDailyRisk
    \/ UpdateDrawdown
    \/ ResetDailyRisk
    \/ NextDay

SpecEmergency == Init /\ [][NextEmergency]_vars

-----------------------------------------------------------------------------
(* Claims about the engine                                                 *)

\* the bots with an invocation that begins, moves or returns in this step
StepBots ==
    {call.bot : call \in {x \in BagToSet(calls) \cup BagToSet(calls') :
                             CopiesIn(x, calls) # CopiesIn(x, calls')}}

\* the emergency stop condition of checkEmergencyStop has held: currentDrawdown has been at
\* or over maxDrawdown (maxDrawdownReached keeps the largest currentDrawdown ever set, and
\* no operation lowers it), or the daily risk used is at or over maxDailyRisk
EmergencyCondition ==
    \/ rm.maxDrawdownReached * 100 >= maxDrawdownPct * accountBalance
    \/ rm.dailyRiskUsed * 100 >= maxDailyRiskPct * accountBalance

\* C4: once the emergency stop condition has held (the drawdown reached maxDrawdown at some
\* time, or the daily risk used is at or over maxDailyRisk), handleMarketDataUpdate accepts
\* no signal for execution on a later step.
C4_EmergencyStopLatches ==
    [][EmergencyCondition =>
          \A call \in BagToSet(calls') :
              call.pc = "placeOrder" => CopiesIn(call, calls') <= CopiesIn(call, calls)]_vars

\* C5: every step of a handleMarketDataUpdate invocation for one bot, failing or not, leaves
\* every other bot's object (status, positions, performance), stream and registration as
\* they were, and a bar delivered to a running bot starts its analysis.
C5_FailureIsolated ==
    [][/\ \A b \in BotIds :
             (StepBots # {} /\ b \notin StepBots) =>
                 /\ bots'[b] = bots[b]
                 /\ sockets'[b] = sockets[b]
                 /\ (b \in activeBots') <=> (b \in activeBots)
       /\ \A b \in BotIds :
             (b \in activeBots /\ bots[b].status = "running" /\ DeliverBar(b)) =>
                 CopiesIn([pc |-> "analyze", bot |-> b], calls') =
                     CopiesIn([pc |-> "analyze", bot |-> b], calls) + 1]_vars

\* bot A failed on its bar; B, still running, is analysing a bar delivered after A's
C5_Witness ==
    /\ bots["A"] # NoBot /\ bots["B"] # NoBot
    /\ bots["A"].status = "error"
    /\ InFlight("A") = {}
    /\ bots["A"].performance.totalTrades = 0
    /\ bots["A"].lastMarketData >= 1
    /\ bots["B"].status = "running"
    /\ bots["B"].lastMarketData > bots["A"].lastMarketData
    /\ \E call \in InFlight("B") : call.pc = "analyze"

\* C6: when placeOrder fails for a running bot, the bot stays 'running', no position is
\* added and totalTrades is not incremented.
C6_OrderFailureKeepsRunning ==
    [][\A b \in BotIds :
          (PlaceOrderFails(b) /\ bots[b].status = "running") =>
              /\ bots'[b].status = "running"
              /\ bots'[b].positions = bots[b].positions
              /\ bots'[b].performance.totalTrades = bots[b].performance.totalTrades]_vars

\* C7: a bot's status becomes 'error' only from 'running'.
C7_ErrorOnlyFromRunning ==
    [][\A b \in BotIds :
          (bots[b] # NoBot /\ bots[b].status # "error" /\ bots'[b].status = "error") =>
              bots[b].status = "running"]_vars

\* C8: a bot whose status is 'error' or 'stopped' becomes 'running' only by a startBot call.
C8_RunningOnlyByStartBot ==
    [][\A b \in BotIds :
          (bots[b] # NoBot /\ bots[b].status \in {"error", "stopped"}
           /\ bots'[b].status = "running") => StartBot(b)]_vars

\* a running bot that has traded and has no invocation in flight: the invocation that
\* recorded the trade ended in the catch, so the bot has been started again since
C8_Witness ==
    \E b \in BotIds :
        /\ bots[b] # NoBot
        /\ bots[b].status = "running"
        /\ bots[b].performance.totalTrades > 0
        /\ InFlight(b) = {}

\* C9: a handleMarketDataUpdate call that begins while the bot is not running (or is no
\* longer registered) starts no analysis and changes no field of any bot.
C9_NotRunningIgnoresBar ==
    [][\A b \in BotIds :
          (DeliverBar(b) /\ (b \notin activeBots \/ bots[b].status # "running")) =>
              /\ bots' = bots
              /\ calls' = calls]_vars

\* only A exists, it is stopped with nothing in flight, and a bar arrived after the last one
\* it handled
C9_Witness ==
    /\ bots["B"] = NoBot
    /\ bots["A"] # NoBot
    /\ bots["A"].status = "stopped"
    /\ "A" \in activeBots
    /\ InFlight("A") = {}
    /\ bots["A"].lastMarketData >= 1
    /\ cache[BotSymbol] > bots["A"].lastMarketData

\* C10: while a handleMarketDataUpdate invocation for a bot is in flight, cleanupBot has
\* not removed the bot from the registry nor released its stream and broker connection.
C10_CleanupWaitsForInFlight ==
    \A call \in InFlightCalls :
        /\ call.bot \in activeBots
        /\ call.bot \in marketDataStreams
        /\ call.bot \in brokerConnections
        /\ sockets[call.bot] = "open"

\* C11: for a single bot no two handleMarketDataUpdate invocations overlap: at most one
\* invocation per bot is suspended between its beginning and its return.
C11_BarsHandledSequentially ==
    \A b \in BotIds :
        /\ Cardinality(InFlight(b)) <= 1
        /\ \A call \in InFlight(b) : CopiesIn(call, calls) <= 1

\* the open positions a bot holds in a symbol
OpenIn(b, symbol) ==
    {i \in DOMAIN bots[b].positions :
        bots[b].positions[i].status = "open" /\ bots[b].positions[i].symbol = symbol}

\* C12: bot.positions never contains two open positions in the same symbol.
C12_OneOpenPositionPerSymbol ==
    \A b \in BotIds :
        bots[b] # NoBot => \A symbol \in Symbols : Cardinality(OpenIn(b, symbol)) <= 1

-----------------------------------------------------------------------------
(* Two bots trading on the engine's riskManager while risk usage is        *)
(* recorded on it.  The engine has one RiskManager (constructor, line 11); *)
(* handleMarketDataUpdate passes bot.riskConfig as a third argument that   *)
(* validateSignal does not take.                                           *)

NextShared ==
    \/ \E b \in BotIds : InitializeBot(b)
    \/ \E b \in BotIds : StartBot(b)
    \/ \E b \in BotIds : DeliverBar(b)
    \/ \E b \in BotIds : AnalyzeNoSignal(b)
    \/ \E b \in BotIds : AnalyzeSignal(b)
    \/ \E b \in BotIds : PlaceOrderDone(b)
    \/ \E b \in BotIds : StoreTradeDone(b)
    \/ UpdateDailyRisk
    \/ UpdateDrawdown

SpecShared == Init /\ [][NextShared]_vars

\* what validating the signal for bot b returns in the current state
Outcome(b, signal) == validateSignal(signal, bots[b].positions).result

\* C14: the outcome of validating a signal of bot b depends only on what b owns: with
\* another bot a registered, a step that changes nothing of b (its positions and every other
\* field of its object), such as risk usage recorded for a trade of a, leaves the outcome of
\* validating each signal for b as it was.
C14_ValidationDependsOnOwnBot ==
    [][\A a, b \in BotIds :
          (a # b /\ bots[a] # NoBot /\ bots[b] # NoBot /\ bots'[b] = bots[b]) =>
              \A signal \in EngineSignals : Outcome(b, signal)' = Outcome(b, signal)]_vars

-----------------------------------------------------------------------------
(* A bot that runs a DCAStrategy: handleMarketDataUpdate calls analyze and  *)
(* hands the signal it returns to validateSignal and executeSignal.        *)

\* the deals the strategy creates are limited to MaxDeals, and to MaxBotDeals where all
\* bars are of the bot's symbol
MaxDeals == 2
MaxBotDeals == 1
\* Date.now() and the bars' timestamps run over the hours 1 .. MaxHour
MaxHour == 7

DcaSymbols == {"EURUSD", "GBPUSD"}
Closes == {0, 80, 86, 100}
\* the clock advances, and bars are stamped, in steps of half a cooldown period
HourStep == cooldownPeriod \div 2
\* the timestamps of the bars handled at the time now: a live bar is stamped now, a
\* delayed or replayed bar earlier
LiveBars == [now \in 1..MaxHour |-> {now}]
DelayedBars == [now \in 1..MaxHour |-> {h \in 1..now : (now - h) % HourStep = 0}]

Field(signal, name) == IF name \in DOMAIN signal THEN signal[name] ELSE Undefined

\* what validateSignal reads of a signal of the strategy: absent fields are undefined,
\* metadata?.atr || 0 is 0, and the lot size is rounded up to whole lots
readSignal(signal) ==
    [symbol |-> signal.symbol,
     entryPrice |-> Field(signal, "entryPrice"),
     stopLoss |-> Field(signal, "stopLoss"),
     takeProfit |-> Field(signal, "takeProfit"),
     lotSize |-> (signal.lotSize + baseOrderSize * 10 - 1) \div (baseOrderSize * 10),
     atr |-> 0]

\* the trade executeSignal records once placeOrder has resolved
strategyTrade(validatedSignal, signal) ==
    [symbol |-> BotSymbol,
     direction |-> signal.direction,
     lotSize |-> validatedSignal.lotSize,
     entryPrice |-> Field(signal, "price"),
     stopLoss |-> validatedSignal.stopLoss,
     takeProfit |-> validatedSignal.takeProfit,
     status |-> "open",
     signal |-> signal]

\* handleMarketDataUpdate of the running bot for one bar of a symbol in symbols with a
\* timestamp in stamps[clock], while Date.now() is clock and the strategy has created
\* fewer than deals deals.  A tick of processRealTimeData has no close and is refused like
\* the close 0.
HandleBarOf(symbols, deals, stamps) ==
    \E symbol \in symbols, close \in Closes, timestamp \in stamps[clock],
       startSignal \in BOOLEAN :
        /\ startSignal => generateDealId(strategy) <= deals
        /\ LET marketData == [symbol |-> symbol, close |-> close, timestamp |-> timestamp]
               analyzed == analyze(strategy, marketData, clock, startSignal)
               signal == analyzed.signal
               validatedSignal ==
                   IF signal = Null THEN Null
                   ELSE validateSignal(readSignal(signal), botPositions).result
           IN  /\ lastMarketData' = marketData
               /\ strategy' = analyzed.strategy
               /\ botPositions' = IF validatedSignal = Null THEN botPositions
                                  ELSE Append(botPositions, strategyTrade(validatedSignal, signal))
        /\ UNCHANGED <<riskVars, caseVars, engineVars, clock, grid, toolVars>>

\* time passes
Tick ==
    /\ clock + HourStep <= MaxHour
    /\ clock' = clock + HourStep
    /\ UNCHANGED <<riskVars, caseVars, engineVars, strategy, botPositions, lastMarketData, grid, toolVars>>

\* live bars of any symbol the feed names
HandleBar == HandleBarOf(DcaSymbols, MaxDeals, LiveBars)

\* bars of bot.symbol, the symbol the stream is subscribed to
HandleBotBar == HandleBarOf({BotSymbol}, MaxBotDeals, DelayedBars)

\* bars of bot.symbol, for a strategy that opens one deal after another
HandleDelayedBar == HandleBarOf({BotSymbol}, MaxDeals, DelayedBars)

NextDCA == HandleBar \/ Tick

NextBotDCA == HandleBotBar \/ Tick

SpecBotDCA == Init /\ [][NextBotDCA]_vars

NextDelayed == HandleDelayedBar \/ Tick

SpecDelayed == Init /\ [][NextDelayed]_vars

SpecDCA == Init /\ [][NextDCA]_vars

ActiveDeals == {strategy.activeDeals[i] : i \in DOMAIN strategy.activeDeals}

\* C13: a deal is in activeDeals only if the signal that created it passed validateSignal
\* and was filled, that is, only if bot.positions holds the trade of its base order.
C13_DealOnlyIfAcceptedAndFilled ==
    \A deal \in ActiveDeals :
        \E i \in DOMAIN botPositions : botPositions[i].signal = deal.baseOrder

\* C16: every active deal has safetyOrderCount <= maxSafetyOrders.
C16_SafetyOrderCountBounded ==
    \A deal \in ActiveDeals : deal.safetyOrderCount <= maxSafetyOrders

C16_Witness ==
    \E deal \in ActiveDeals :
        deal.safetyOrderCount = maxSafetyOrders /\ Len(deal.safetyOrders) = maxSafetyOrders

RECURSIVE SumLots(_)
SumLots(orders) ==
    IF orders = <<>> THEN 0 ELSE Head(orders).lotSize + SumLots(Tail(orders))

RECURSIVE SumCost(_)
SumCost(orders) ==
    IF orders = <<>> THEN 0
    ELSE Head(orders).entryPrice * Head(orders).lotSize + SumCost(Tail(orders))

Orders(deal) == <<deal.baseOrder>> \o deal.safetyOrders

\* C15: for every active deal, averagePrice = totalInvested / totalVolume, where totalVolume
\* is the sum of lotSize and totalInvested the sum of entryPrice * lotSize over the base
\* order and the safety orders of the deal.
C15_AveragePriceIsInvestedOverVolume ==
    \A deal \in ActiveDeals :
        /\ deal.totalVolume = SumLots(Orders(deal))
        /\ deal.totalInvested = SumCost(Orders(deal))
        /\ deal.averagePrice = Quotient(deal.totalInvested, deal.totalVolume)

C15_Witness ==
    \E deal \in ActiveDeals :
        /\ Len(deal.safetyOrders) >= 2
        /\ deal.safetyOrders[1].entryPrice # deal.baseOrder.entryPrice
        /\ deal.averagePrice.den > 1

\* C17: a deal whose safetyOrderCount has reached maxSafetyOrders is closed by analyze, so
\* no deal in activeDeals has used up its safety orders.
C17_ExhaustedDealIsClosed ==
    \A deal \in ActiveDeals : deal.safetyOrderCount < deal.maxSafetyOrders

NewDeals == {deal \in ActiveDeals' : \A old \in ActiveDeals : old.id # deal.id}

\* C18: after a deal was closed at bar timestamp t, a bar that opens a new deal has a
\* timestamp of at least t + cooldownPeriod.
C18_CooldownBlocksReentry ==
    [][strategy.lastDealClose # 0 =>
          \A deal \in NewDeals : deal.createdAt >= strategy.lastDealClose + cooldownPeriod]_vars

\* the bar the step handled, if the step handled one that changed anything
BarHandled == lastMarketData' # lastMarketData \/ strategy' # strategy

\* the bar closes at or below the deal's nextSafetyOrderPrice and touches neither its take
\* profit nor its stop loss
CallsForSafetyOrder(deal, marketData) ==
    /\ marketData.symbol = deal.symbol
    /\ marketData.close * DeviationScale <= deal.nextSafetyOrderPrice
    /\ ~AtLeast(marketData.close, deal.takeProfitPrice)
    /\ ~(deal.stopLossPrice # Null /\ AtMost(marketData.close, deal.stopLossPrice))

\* C19: every bar that closes at or below an open deal's nextSafetyOrderPrice, touching
\* neither take profit nor stop loss, adds one safety order to the deal while fewer than
\* maxSafetyOrders were added and none after that, and nextSafetyOrderPrice decreases with
\* every safety order added.
C19_OneSafetyOrderPerBar ==
    [][\A deal \in ActiveDeals :
          (BarHandled /\ CallsForSafetyOrder(deal, lastMarketData')) =>
              \E after \in ActiveDeals' :
                  /\ after.id = deal.id
                  /\ after.safetyOrderCount = Min(deal.safetyOrderCount + 1, maxSafetyOrders)
                  /\ after.safetyOrderCount > deal.safetyOrderCount =>
                         after.nextSafetyOrderPrice < deal.nextSafetyOrderPrice]_vars

-----------------------------------------------------------------------------
(* A GridStrategy instance and the analyze calls made on it.               *)

\* analyze is called at most MaxGridBars times
MaxGridBars == 4

GridCloses == {0, 9500, 9750, 10000, 10250, 10500}

\* StrategyManager.createStrategy('grid', config); bars counts the analyze calls made on
\* the instance
CreateGrid ==
    /\ grid = NoGrid
    /\ \E hedging \in BOOLEAN : grid' = [bars |-> 0] @@ NewGrid(hedging)
    /\ UNCHANGED <<riskVars, caseVars, engineVars, strategy, clock, botPositions, lastMarketData,
                   toolVars>>

\* GridStrategy.analyze for one bar with a close of closes, while Date.now() is clock; at
\* most bars calls are made; changes tells whether the ATR may have changed by more than 0.3
GridAnalyzeOf(closes, bars, changes) ==
    /\ grid # NoGrid
    /\ grid.bars < bars
    /\ \E close \in closes, volatilityChange \in changes :
          LET marketData == [symbol |-> BotSymbol, close |-> close]
          IN  /\ lastMarketData' = marketData
              /\ grid' = [gridAnalyze(grid, marketData, clock, volatilityChange)
                              EXCEPT !.bars = grid.bars + 1]
    /\ UNCHANGED <<riskVars, caseVars, engineVars, strategy, clock, botPositions, toolVars>>

GridAnalyze == GridAnalyzeOf(GridCloses, MaxGridBars, BOOLEAN)

NextGrid == CreateGrid \/ GridAnalyze \/ Tick

SpecGrid == Init /\ [][NextGrid]_vars

PendingAt(levelId) ==
    {k \in DOMAIN grid.gridOrders :
        grid.gridOrders[k].status = "pending" /\ grid.gridOrders[k].level.id = levelId}

RunCloses == {9550, 10450}

\* GridStrategy.analyze for one bar of a market with a steady ATR; the calls are not counted:
\* the cooldown of the rebalance and the clock bound the orders of a run
GridRunAnalyze ==
    /\ grid # NoGrid
    /\ \E close \in RunCloses :
          LET marketData == [symbol |-> BotSymbol, close |-> close]
          IN  /\ lastMarketData' = marketData
              /\ grid' = gridAnalyze(grid, marketData, clock, FALSE)
    /\ UNCHANGED <<riskVars, caseVars, engineVars, strategy, clock, botPositions, toolVars>>

NextGridRun == CreateGrid \/ GridRunAnalyze \/ Tick

SpecGridRun == Init /\ [][NextGridRun]_vars

\* C21: the number of grid orders of the strategy, pending and filled, is at most
\* maxGridOrders.
C21_GridOrdersBounded ==
    grid # NoGrid => Len(grid.gridOrders) <= maxGridOrders

\* the step is an analyze call on the grid
GridBarHandled == grid # NoGrid /\ grid' # NoGrid /\ grid'.bars = grid.bars + 1

\* the close has crossed the take-profit price of the position
TakeProfitCrossed(position, close) ==
    IF position.direction = "BUY" THEN close >= position.takeProfitPrice
    ELSE close <= position.takeProfitPrice

\* the analyze call of the step went past the validation, the making of the grid and the
\* rebalance, to the checks of the orders and of the exits
ReachedExitCheck ==
    /\ GridBarHandled
    /\ gridValidateMarketConditions(grid, lastMarketData')
    /\ grid.isInitialized
    /\ grid'.orderCount - grid.orderCount <= 1

\* C22: the analyze call for a bar whose close has crossed the take-profit price of a
\* position of the grid closes the position and leaves a pending order at the level of
\* the position (stated for the calls that come to the check of the exits).
C22_TakeProfitReplacesOrder ==
    [][ReachedExitCheck =>
         \A k \in DOMAIN grid.positions :
            TakeProfitCrossed(grid.positions[k], lastMarketData'.close) =>
               /\ \A j \in DOMAIN grid'.positions :
                      grid'.positions[j].orderId # grid.positions[k].orderId
               /\ \E j \in DOMAIN grid'.gridOrders :
                      /\ grid'.gridOrders[j].status = "pending"
                      /\ grid'.gridOrders[j].level.id = grid.positions[k].level.id]_vars

-----------------------------------------------------------------------------
(* The strategies' analyze on bars with a short or missing price history.  *)
(* marketData.prices is a list of bars of which only its length matters    *)
(* here: the indicators of TechnicalIndicators (src/unnamed/part_008)      *)
(* return series whose lengths depend on the length of the input alone.    *)

\* marketData.prices is undefined
NoPrices == -1

\* sma: one value for each i from period - 1 to data.length - 1
smaLength(length, period) == IF length >= period THEN length - period + 1 ELSE 0

\* rsi: sma over the length - 1 changes from one value to the next
rsiLength(length, period) == smaLength(IF length > 0 THEN length - 1 ELSE 0, period)

\* bollingerBands: one band for each i from period - 1 to data.length - 1
bollingerBandsLength(length, period) == IF length >= period THEN length - period + 1 ELSE 0

\* atr: sma over the length - 1 true ranges
atrLength(length, period) == smaLength(IF length > 0 THEN length - 1 ELSE 0, period)

\* the periods the three strategies pass to rsi, bollingerBands and atr
rsiPeriod == 14
bbPeriod == 20
atrPeriod == 14
\* the longest period a strategy passes to an indicator (the slow EMA and MACD)
longestPeriod == 26

\* calculateIndicators of the three strategies: prices.map(...) throws a TypeError when
\* prices is undefined; the indicators themselves do not throw on a short series
calculateIndicatorsThrows(prices) == prices = NoPrices

\* GridStrategy.analyze throws: in calculateIndicators, or in calculateGridBounds when no
\* bounds are configured yet and bollingerBands returned no band (bb.upper of undefined)
gridAnalyzeThrows(g, marketData) ==
    /\ gridValidateMarketConditions(g, marketData)
    /\ \/ calculateIndicatorsThrows(marketData.prices)
       \/ /\ ~g.isInitialized
          /\ ~(g.config.upperBound # 0 /\ g.config.lowerBound # 0)
          /\ bollingerBandsLength(marketData.prices, bbPeriod) = 0

\* shouldRebalanceGrid compares the last ATR with the one ten values before it; with fewer
\* values the change is NaN and the comparison with 0.3 false
atrChangeKnown(prices) == atrLength(prices, atrPeriod) >= 10

\* DCAStrategy.analyze throws: in calculateIndicators, or in checkDealStartCondition for
\* 'rsi_oversold' when the RSI has a last value below 30 and bollingerBands returned no
\* band (currentBB.lower of undefined)
dcaAnalyzeThrows(s, marketData, now, oversold) ==
    /\ validateMarketConditions(s, marketData)
    /\ ~isInCooldown(s, now)
    /\ \/ calculateIndicatorsThrows(marketData.prices)
       \/ /\ rsiLength(marketData.prices, rsiPeriod) > 0
          /\ oversold
          /\ bollingerBandsLength(marketData.prices, bbPeriod) = 0

\* checkDealStartCondition for 'rsi_oversold': currentRSI < 30 && close < currentBB.lower;
\* an undefined RSI is not below 30
checkDealStartCondition(marketData, oversold, belowLowerBand) ==
    rsiLength(marketData.prices, rsiPeriod) > 0 /\ oversold /\ belowLowerBand

\* ScalpingStrategy (src/lib/trading/market-data.js): the fields analyze reads and writes
scalpingMaxSpread == 3
scalpingMaxPositions == 3

NewScalping == [positions |-> <<>>, signals |-> <<>>]

scalpingValidateMarketConditions(s, marketData) ==
    /\ marketData.spread <= scalpingMaxSpread
    /\ marketData.volume > 0
    /\ Len(s.positions) < scalpingMaxPositions

\* ScalpingStrategy.analyze throws: in calculateIndicators, or in generateSignal, whose
\* conditions object reads currentBB.lower of the last band, undefined without a band
scalpingAnalyzeThrows(s, marketData) ==
    /\ scalpingValidateMarketConditions(s, marketData)
    /\ \/ calculateIndicatorsThrows(marketData.prices)
       \/ bollingerBandsLength(marketData.prices, bbPeriod) = 0

\* ScalpingStrategy.analyze for a bar at which no entry condition of generateSignal holds:
\* no signal; checkExitSignals goes through the positions, of which analyze adds none
scalpingAnalyze(s, marketData) == [strategy |-> s, signal |-> Null]

\* the lengths of marketData.prices
PriceHistories == {NoPrices, 0, 15, 19, 20, 26}

\* closes in pips, for the grid
InputCloses == {0, 9750, 10000}

StrategyKinds == {"scalping", "dca", "grid"}

InputBot == "A"

\* StrategyManager.createStrategy(kind, config) for the bot
CreateStrategy ==
    /\ analysis = NoAnalysis
    /\ bots[InputBot] # NoBot
    /\ \E kind \in StrategyKinds :
          /\ analysis' = [kind |-> kind, threw |-> FALSE, signal |-> Null,
                          scalping |-> NewScalping]
          /\ grid' = IF kind = "grid" THEN [bars |-> 0] @@ NewGrid(FALSE) ELSE grid
    /\ UNCHANGED <<riskVars, caseVars, engineVars, strategy, clock, botPositions, lastMarketData,
                   backtest, indicators>>

\* the bars the bot may be given, with a close of closes
InputBars(closes) ==
    [symbol : {BotSymbol}, close : closes, prices : PriceHistories, spread : {2},
     volume : {100}, timestamp : {clock}]

\* handleMarketDataUpdate after analyze has thrown, or has returned a signal that
\* validateSignal refused or no signal: the catch, or updateBotPerformance
afterAnalyze(bot, threw) == IF threw THEN catchError(bot) ELSE finishUpdate(bot)

\* handleMarketDataUpdate of the bot with a GridStrategy
HandleGridInput ==
    /\ accepts(InputBot)
    /\ analysis # NoAnalysis
    /\ analysis.kind = "grid"
    /\ grid.bars < MaxGridBars
    /\ \E marketData \in InputBars(InputCloses), volatilityChange \in BOOLEAN :
          LET threw == gridAnalyzeThrows(grid, marketData)
              analyzed == IF threw THEN grid
                          ELSE gridAnalyze(grid, marketData, clock,
                                           volatilityChange /\ atrChangeKnown(marketData.prices))
          IN  /\ lastMarketData' = marketData
              /\ grid' = [analyzed EXCEPT !.bars = grid.bars + 1]
              /\ analysis' = [analysis EXCEPT !.threw = threw]
              /\ bots' = [bots EXCEPT ![InputBot] = afterAnalyze(@, threw)]
    /\ UNCHANGED <<riskVars, caseVars, registryVars, serviceVars, calls, cleanups, strategy, clock,
                   botPositions, backtest, indicators>>

\* handleMarketDataUpdate of the bot with a DCAStrategy
HandleDcaInput ==
    /\ accepts(InputBot)
    /\ analysis # NoAnalysis
    /\ analysis.kind = "dca"
    /\ \E marketData \in InputBars(Closes), oversold \in BOOLEAN, belowLowerBand \in BOOLEAN :
          LET threw == dcaAnalyzeThrows(strategy, marketData, clock, oversold)
              startSignal == checkDealStartCondition(marketData, oversold, belowLowerBand)
              analyzed == IF threw THEN [strategy |-> strategy, signal |-> Null]
                          ELSE analyze(strategy, marketData, clock, startSignal)
              signal == analyzed.signal
              validatedSignal ==
                  IF signal = Null THEN Null
                  ELSE validateSignal(readSignal(signal), botPositions).result
          IN  /\ ~threw /\ startSignal => generateDealId(strategy) <= MaxBotDeals
              /\ lastMarketData' = marketData
              /\ strategy' = analyzed.strategy
              /\ analysis' = [analysis EXCEPT !.threw = threw, !.signal = signal]
              /\ botPositions' = IF validatedSignal = Null THEN botPositions
                                 ELSE Append(botPositions, strategyTrade(validatedSignal, signal))
              /\ bots' = [bots EXCEPT ![InputBot] = afterAnalyze(@, threw)]
    /\ UNCHANGED <<riskVars, caseVars, registryVars, serviceVars, calls, cleanups, clock, grid,
                   backtest, indicators>>

\* handleMarketDataUpdate of the bot with a ScalpingStrategy
HandleScalpingInput ==
    /\ accepts(InputBot)
    /\ analysis # NoAnalysis
    /\ analysis.kind = "scalping"
    /\ \E marketData \in InputBars(InputCloses) :
          LET threw == scalpingAnalyzeThrows(analysis.scalping, marketData)
              analyzed == IF threw \/ ~scalpingValidateMarketConditions(analysis.scalping, marketData)
                          THEN [strategy |-> analysis.scalping, signal |-> Null]
                          ELSE scalpingAnalyze(analysis.scalping, marketData)
          IN  /\ lastMarketData' = marketData
              /\ analysis' = [analysis EXCEPT !.threw = threw, !.signal = analyzed.signal,
                                              !.scalping = analyzed.strategy]
              /\ bots' = [bots EXCEPT ![InputBot] = afterAnalyze(@, threw)]
    /\ UNCHANGED <<riskVars, caseVars, registryVars, serviceVars, calls, cleanups, strategy, clock,
                   botPositions, grid, backtest, indicators>>

NextInput ==
    \/ InitializeBot(InputBot)
    \/ StartBot(InputBot)
    \/ CreateStrategy
    \/ HandleGridInput
    \/ HandleDcaInput
    \/ HandleScalpingInput
    \/ Tick

SpecInput == Init /\ [][NextInput]_vars

\* the step is a handleMarketDataUpdate call of the bot that reached analyze
InputHandled == accepts(InputBot) /\ lastMarketData' # lastMarketData

\* the bar has no price history, or fewer bars than the longest indicator period
Insufficient(marketData) == marketData.prices = NoPrices \/ marketData.prices < longestPeriod

\* C23: analyze of each strategy, given a bar without a price history or with fewer bars
\* than the longest indicator period, raises no error, returns no signal and leaves the
\* strategy as it was, and the bot is not moved to 'error'.
C23_InsufficientInputIsNoError ==
    [][(InputHandled /\ Insufficient(lastMarketData')) =>
          /\ ~analysis'.threw
          /\ analysis'.signal = Null
          /\ bots'[InputBot].status # "error"
          /\ strategy' = strategy
          /\ analysis'.scalping = analysis.scalping
          /\ grid' = IF analysis.kind = "grid" THEN [grid EXCEPT !.bars = @ + 1] ELSE grid]_vars

-----------------------------------------------------------------------------
(* ScalpingBot (src/unnamed/part_006, 584-1146).  Of each indicator series *)
(* only the last value is read; it is NaN when the series is empty.        *)
(* Prices are in pips, the volatility in units of 0.0001, the strength and *)
(* quality of the market condition in tenths.  No indicator value is -1.   *)

\* defaults of the constructor
botStopLossPips == 10
botTakeProfitPips == 15
minVolatility == 5
maxVolatility == 20
maxConsecutiveLosses == 3

\* a > b and a < b of JavaScript: false when either side is NaN
Greater(a, b) == Less(b, a)
\* Math.max and Math.min: NaN when either argument is NaN
MaxN(a, b) == IF a = NaN \/ b = NaN THEN NaN ELSE IF a >= b THEN a ELSE b
MinN(a, b) == IF a = NaN \/ b = NaN THEN NaN ELSE IF a <= b THEN a ELSE b

\* calculateIndicators returned {} from its catch
EmptyIndicators == [empty |-> TRUE]

\* analyzeMarketCondition
analyzeMarketCondition(ind) ==
    LET trend == IF Greater(ind.emaFast, ind.emaSlow) THEN "bullish"
                 ELSE IF Less(ind.emaFast, ind.emaSlow) THEN "bearish" ELSE "sideways"
        volatility == IF Greater(ind.volatility, maxVolatility) THEN "high"
                      ELSE IF Less(ind.volatility, minVolatility) THEN "low" ELSE "optimal"
        strength == (IF trend # "sideways" THEN 3 ELSE 0)
                    + (IF ~Greater(ind.rsi, 70) /\ ~Less(ind.rsi, 30)
                          /\ Greater(ind.rsi, 45) /\ Less(ind.rsi, 55) THEN 2 ELSE 0)
                    + (IF volatility = "optimal" THEN 3 ELSE 0)
                    + (IF Greater(ind.macd, ind.macdSignal) THEN 2 ELSE 0)
    IN  [trend |-> trend, volatility |-> volatility, quality |-> Min(10, strength)]

findNearestSupport(ind) == MaxN(ind.bbLower, ind.emaFast)
findNearestResistance(ind) == MinN(ind.bbUpper, ind.emaFast)

\* createScalpingSignal: null when the reward is less than 1.2 times the risk
createScalpingSignal(action, currentBar, ind) ==
    LET currentPrice == currentBar.close
        stopLoss == IF action = "BUY"
                    THEN MaxN(currentPrice - botStopLossPips, Sub(findNearestSupport(ind), 2))
                    ELSE MinN(currentPrice + botStopLossPips, Add(findNearestResistance(ind), 2))
        takeProfit == IF action = "BUY" THEN currentPrice + botTakeProfitPips
                      ELSE currentPrice - botTakeProfitPips
        risk == IF stopLoss = NaN THEN NaN ELSE Abs(currentPrice - stopLoss)
        reward == Abs(takeProfit - currentPrice)
    IN  IF risk # NaN /\ reward * 10 < 12 * risk THEN Null
        ELSE [action |-> action, price |-> currentPrice, stopLoss |-> stopLoss,
              takeProfit |-> takeProfit]

\* the number of conditions that hold
CountTrue(conditions) == Cardinality({i \in DOMAIN conditions : conditions[i]})

\* a score of at least 0.5
meetsHalfConfidence(conditions) == 2 * CountTrue(conditions) >= Len(conditions)

\* score >= 0.8, the score being the share of the conditions that hold
meetsConfidence(conditions) == 10 * CountTrue(conditions) >= 8 * Len(conditions)

\* generateScalpingSignals: the bot and the signals returned
generateScalpingSignals(bot, ind, marketCondition, currentBar) ==
    IF ind = EmptyIndicators THEN [bot |-> bot, signals |-> <<>>]
    ELSE IF marketCondition.quality < 6 THEN [bot |-> bot, signals |-> <<>>]
    ELSE IF marketCondition.volatility # "optimal" THEN [bot |-> bot, signals |-> <<>>]
    ELSE IF bot.consecutiveLosses >= maxConsecutiveLosses THEN [bot |-> bot, signals |-> <<>>]
    ELSE LET currentPrice == currentBar.close
             neutralRsi == Greater(ind.rsi, 40) /\ Less(ind.rsi, 60)
             longConditions ==
                 <<Greater(ind.emaFast, ind.emaSlow),
                   neutralRsi,
                   Greater(currentPrice, ind.bbMiddle),
                   Greater(ind.stochK, ind.stochD) /\ Less(ind.stochK, 80),
                   Greater(ind.momentum, 0),
                   marketCondition.trend = "bullish">>
             shortConditions ==
                 <<Less(ind.emaFast, ind.emaSlow),
                   neutralRsi,
                   Less(currentPrice, ind.bbMiddle),
                   Less(ind.stochK, ind.stochD) /\ Greater(ind.stochK, 20),
                   Less(ind.momentum, 0),
                   marketCondition.trend = "bearish">>
             long == IF meetsConfidence(longConditions)
                     THEN createScalpingSignal("BUY", currentBar, ind) ELSE Null
             short == IF meetsConfidence(shortConditions)
                      THEN createScalpingSignal("SELL", currentBar, ind) ELSE Null
             signals == (IF long = Null THEN <<>> ELSE <<long>>)
                        \o (IF short = Null THEN <<>> ELSE <<short>>)
         IN  [bot |-> [bot EXCEPT !.totalSignals = @ + Len(signals)], signals |-> signals]

\* the last values of the indicator series
IndicatorValues ==
    [emaFast : {NaN, 9990, 10030}, emaSlow : {10000}, rsi : {NaN, 42, 50, 75},
     bbLower : {9980}, bbMiddle : {NaN, 10005}, bbUpper : {10040},
     stochK : {NaN, 10, 50, 90}, stochD : {30, 70}, momentum : {NaN, -5, 0, 5},
     volatility : {1, 10}, macd : {0, 2}, macdSignal : {1}]

MarketConditions ==
    [trend : {"bullish", "bearish", "sideways"}, volatility : {"optimal", "low"},
     quality : {3, 8}]

\* new ScalpingBot(), after updatePerformance calls that left consecutiveLosses losses
NewScalpingBot(losses) == [consecutiveLosses |-> losses, totalSignals |-> 0]

\* a ScalpingBot and the indicators and the bar of a call, drawn in the initial state
InitScalpingBot ==
    /\ rm = InitRiskManager
    /\ today = 1
    /\ riskCase = NoCase
    /\ rv = NotCalled
    /\ InitEngine
    /\ backtest = NoBacktest
    /\ indicators = NoIndicators
    /\ analysis \in [bot : {NewScalpingBot(0), NewScalpingBot(maxConsecutiveLosses)},
                     indicators : IndicatorValues \cup {EmptyIndicators},
                     currentBar : [close : {10000, 10010}],
                     marketCondition : {Null},
                     called : {FALSE},
                     signals : {<<>>}]

\* ScalpingBot.analyze from the indicators on: analyzeMarketCondition, which throws on the
\* empty indicators so that the catch of analyze returns [], then generateScalpingSignals
ScalpingBotAnalyze ==
    /\ ~analysis.called
    /\ LET marketCondition == IF analysis.indicators = EmptyIndicators THEN Null
                              ELSE analyzeMarketCondition(analysis.indicators)
           generated == generateScalpingSignals(analysis.bot, analysis.indicators,
                                                marketCondition, analysis.currentBar)
       IN  analysis' = [analysis EXCEPT !.bot = generated.bot,
                                        !.marketCondition = marketCondition,
                                        !.called = TRUE,
                                        !.signals = generated.signals]
    /\ UNCHANGED <<riskVars, caseVars, engineVars, strategy, clock, botPositions, lastMarketData,
                   grid, backtest, indicators>>

\* generateScalpingSignals called with any market condition
GenerateScalpingSignals ==
    /\ ~analysis.called
    /\ \E marketCondition \in MarketConditions :
          LET generated == generateScalpingSignals(analysis.bot, analysis.indicators,
                                                   marketCondition, analysis.currentBar)
          IN  analysis' = [analysis EXCEPT !.bot = generated.bot,
                                           !.marketCondition = marketCondition,
                                           !.called = TRUE,
                                           !.signals = generated.signals]
    /\ UNCHANGED <<riskVars, caseVars, engineVars, strategy, clock, botPositions, lastMarketData,
                   grid, backtest, indicators>>

NextScalpingBot == ScalpingBotAnalyze \/ GenerateScalpingSignals

SpecScalpingBot == InitScalpingBot /\ [][NextScalpingBot]_vars

\* C24: generateScalpingSignals returns at most one signal, never a BUY and a SELL for
\* the same bar.
C24_AtMostOneEntrySignal ==
    analysis.called =>
       /\ Len(analysis.signals) <= 1
       /\ ~\E i, j \in DOMAIN analysis.signals :
             analysis.signals[i].action = "BUY" /\ analysis.signals[j].action = "SELL"

\* a SELL signal returned with five of the six conditions, the momentum being 0
C24_Witness ==
    /\ analysis.called
    /\ Len(analysis.signals) = 1
    /\ analysis.signals[1].action = "SELL"
    /\ analysis.indicators.momentum = 0
    /\ analysis.bot.totalSignals = 1

(***************************************************************************)
(* BacktestingEngine (src/lib/oanda/config.js).  Prices are in pips        *)
(* (1.0000 is 10000), lot sizes in hundredths of a lot (0.01 is 1) and     *)
(* money in 1/100000 of the account currency, so that the commission of    *)
(* one hundredth of a lot at one pip of price is one unit and every        *)
(* amount of the code is an integer.  An absent stopLoss, takeProfit,      *)
(* price, lotSize or positionId is 0 (falsy in the code).  The quotients   *)
(* calculateResults derives from the fields below (percentages, averages,  *)
(* ratios) are not part of the results modelled.                           *)
(***************************************************************************)
initialBalance == 1000000000
leverage == 50
commissionDivisor == 10000
slippage == 1
defaultLotSize == 1
unitsPerLot == 10000

MaxBacktestBars == 3

\* Date.now() and Math.random() as a run reads them.
Nows == {1, 2}
Randoms == {1, 2}
Sources == [now : Nows, random : Randoms]

\* reset(), with the wall clock and random source of the run; opened counts
\* the positions opened, which tells the ids of one run apart.
NewBacktest(source) ==
    [balance |-> initialBalance, equity |-> initialBalance,
     positions |-> <<>>, trades |-> <<>>, equityHistory |-> <<>>,
     maxDrawdown |-> 0, totalTrades |-> 0, winningTrades |-> 0,
     losingTrades |-> 0, totalProfit |-> 0, totalLoss |-> 0,
     largestWin |-> 0, largestLoss |-> 0,
     source |-> source, opened |-> 0, currentBar |-> NoBar,
     signals |-> <<>>, results |-> Null]

\* Math.max of two amounts.
Larger(a, b) == IF a >= b THEN a ELSE b

\* The positionId 'all', which a CLOSE signal without a positionId gets.
AllPositions == [n |-> 0, now |-> 0, random |-> 0]

applySlippage(price, action) ==
    price + slippage * (IF action = "BUY" THEN 1 ELSE -1)

oppositeAction(action) == IF action = "BUY" THEN "SELL" ELSE "BUY"

calculatePnL(position, closePrice) ==
    IF position.action = "BUY"
    THEN (closePrice - position.openPrice) * position.lotSize * unitsPerLot
    ELSE (position.openPrice - closePrice) * position.lotSize * unitsPerLot

shouldCloseOnStopLoss(position, currentBar) ==
    IF position.stopLoss = 0 THEN FALSE
    ELSE IF position.action = "BUY"
         THEN currentBar.low <= position.stopLoss
         ELSE currentBar.high >= position.stopLoss

shouldCloseOnTakeProfit(position, currentBar) ==
    IF position.takeProfit = 0 THEN FALSE
    ELSE IF position.action = "BUY"
         THEN currentBar.high >= position.takeProfit
         ELSE currentBar.low <= position.takeProfit

\* The variant that asks for the take-profit first.
getClosePriceTakeProfitFirst(position, currentBar) ==
    IF position.takeProfit # 0 /\ shouldCloseOnTakeProfit(position, currentBar)
    THEN position.takeProfit
    ELSE IF position.stopLoss # 0 /\ shouldCloseOnStopLoss(position, currentBar)
         THEN position.stopLoss
         ELSE currentBar.close

getClosePrice(position, currentBar) ==
    IF position.stopLoss # 0 /\ shouldCloseOnStopLoss(position, currentBar)
    THEN position.stopLoss
    ELSE IF position.takeProfit # 0 /\ shouldCloseOnTakeProfit(position, currentBar)
         THEN position.takeProfit
         ELSE currentBar.close

positionValue(lotSize, price) == lotSize * price * unitsPerLot

backtestOpenPosition(e, positionData) ==
    LET value == positionValue(positionData.lotSize, positionData.openPrice)
        marginRequired == value \div leverage
        commission == value \div commissionDivisor
        position ==
            [id |-> [n |-> e.opened + 1, now |-> e.source.now,
                     random |-> e.source.random],
             action |-> positionData.action,
             lotSize |-> positionData.lotSize,
             openPrice |-> applySlippage(positionData.openPrice,
                                         positionData.action),
             stopLoss |-> positionData.stopLoss,
             takeProfit |-> positionData.takeProfit,
             openTime |-> positionData.openTime,
             marginUsed |-> marginRequired,
             commission |-> commission,
             unrealizedPnL |-> 0]
    IN  IF marginRequired > e.balance THEN e
        ELSE [e EXCEPT !.positions = Append(@, position),
                       !.balance = @ - commission,
                       !.opened = @ + 1]

updateTradeStatistics(e, trade) ==
    IF trade.pnl > 0
    THEN [e EXCEPT !.totalTrades = @ + 1,
                   !.winningTrades = @ + 1,
                   !.totalProfit = @ + trade.pnl,
                   !.largestWin = Larger(@, trade.pnl)]
    ELSE [e EXCEPT !.totalTrades = @ + 1,
                   !.losingTrades = @ + 1,
                   !.totalLoss = @ + Abs(trade.pnl),
                   !.largestLoss = Larger(@, Abs(trade.pnl))]

\* The body of closePosition's loop, for one position to close.
closeOnePosition(e, position, currentBar) ==
    LET closePrice == getClosePrice(position, currentBar)
        actualClosePrice ==
            applySlippage(closePrice, oppositeAction(position.action))
        pnl == calculatePnL(position, actualClosePrice)
        closeCommission ==
            positionValue(position.lotSize, actualClosePrice)
                \div commissionDivisor
        totalPnL == pnl - position.commission - closeCommission
        trade ==
            [id |-> [now |-> e.source.now, random |-> e.source.random],
             action |-> position.action,
             lotSize |-> position.lotSize,
             openPrice |-> position.openPrice,
             closePrice |-> actualClosePrice,
             openTime |-> position.openTime,
             closeTime |-> currentBar.time,
             pnl |-> totalPnL,
             commission |-> position.commission + closeCommission,
             duration |-> currentBar.time - position.openTime,
             pips |-> IF position.action = "BUY"
                      THEN actualClosePrice - position.openPrice
                      ELSE position.openPrice - actualClosePrice,
             stopLoss |-> position.stopLoss,
             takeProfit |-> position.takeProfit]
        paid == [e EXCEPT !.balance = @ + position.marginUsed + totalPnL,
                          !.trades = Append(@, trade)]
    IN  [updateTradeStatistics(paid, trade) EXCEPT
            !.positions = SelectSeq(@, LAMBDA p : p.id # position.id)]

RECURSIVE closePositions(_, _, _)
closePositions(e, positionsToClose, currentBar) ==
    IF positionsToClose = <<>> THEN e
    ELSE closePositions(closeOnePosition(e, Head(positionsToClose), currentBar),
                        Tail(positionsToClose), currentBar)

backtestClosePosition(e, positionId, currentBar) ==
    LET found == SelectSeq(e.positions, LAMBDA p : p.id = positionId)
        positionsToClose ==
            IF positionId = AllPositions THEN e.positions
            ELSE IF found = <<>> THEN <<>> ELSE <<Head(found)>>
    IN  closePositions(e, positionsToClose, currentBar)

RECURSIVE closeEach(_, _, _)
closeEach(e, positionIds, currentBar) ==
    IF positionIds = <<>> THEN e
    ELSE closeEach(backtestClosePosition(e, Head(positionIds), currentBar),
                   Tail(positionIds), currentBar)

RECURSIVE totalUnrealizedPnL(_)
totalUnrealizedPnL(positions) ==
    IF positions = <<>> THEN 0
    ELSE Head(positions).unrealizedPnL + totalUnrealizedPnL(Tail(positions))

updateEquity(e) ==
    [e EXCEPT !.equity = e.balance + totalUnrealizedPnL(e.positions)]

updatePositions(e, currentBar) ==
    LET marked ==
            [k \in DOMAIN e.positions |->
                [e.positions[k] EXCEPT
                    !.unrealizedPnL =
                        calculatePnL(e.positions[k], currentBar.close)]]
        due == SelectSeq(marked,
                   LAMBDA p : \/ shouldCloseOnStopLoss(p, currentBar)
                              \/ shouldCloseOnTakeProfit(p, currentBar))
        positionsToClose == [k \in DOMAIN due |-> due[k].id]
    IN  updateEquity(closeEach([e EXCEPT !.positions = marked],
                               positionsToClose, currentBar))

processSignal(e, signal, currentBar) ==
    IF signal.action \in {"BUY", "SELL"}
    THEN backtestOpenPosition(e,
             [action |-> signal.action,
              lotSize |-> IF signal.lotSize = 0 THEN defaultLotSize
                          ELSE signal.lotSize,
              openPrice |-> IF signal.price # 0 THEN signal.price
                            ELSE IF signal.action = "BUY"
                                 THEN currentBar.high ELSE currentBar.low,
              stopLoss |-> signal.stopLoss,
              takeProfit |-> signal.takeProfit,
              openTime |-> currentBar.time])
    ELSE IF signal.action = "CLOSE"
         THEN backtestClosePosition(e, signal.positionId, currentBar)
         ELSE e

RECURSIVE processSignals(_, _, _)
processSignals(e, signals, currentBar) ==
    IF signals = <<>> THEN e
    ELSE processSignals(processSignal(e, Head(signals), currentBar),
                        Tail(signals), currentBar)

RECURSIVE peakEquity(_)
peakEquity(history) ==
    IF Len(history) = 1 THEN history[1].equity
    ELSE Larger(history[1].equity, peakEquity(Tail(history)))

getCurrentDrawdown(e) ==
    IF Len(e.equityHistory) = 0 THEN 0
    ELSE Larger(0, peakEquity(e.equityHistory) - e.equity)

updateEquityHistory(e, currentBar) ==
    LET pushed ==
            [e EXCEPT !.equityHistory =
                Append(@, [time |-> currentBar.time,
                           equity |-> e.equity,
                           balance |-> e.balance,
                           drawdown |-> getCurrentDrawdown(e)])]
    IN  [pushed EXCEPT !.maxDrawdown = Larger(@, getCurrentDrawdown(pushed))]

\* The variant that handles the signals of a bar before the open positions.
runBarSignalsFirst(e, currentBar, signals) ==
    updateEquityHistory(
        updatePositions(
            processSignals([e EXCEPT !.currentBar = currentBar,
                                     !.signals = signals],
                           signals, currentBar),
            currentBar),
        currentBar)

\* One turn of runBacktest's loop; signals is what strategy.analyze returns.
runBar(e, currentBar, signals) ==
    updateEquityHistory(
        processSignals(
            updatePositions([e EXCEPT !.currentBar = currentBar,
                                      !.signals = signals],
                            currentBar),
            signals, currentBar),
        currentBar)

calculateResults(e) ==
    [initialBalance |-> initialBalance,
     finalBalance |-> e.balance,
     finalEquity |-> e.equity,
     totalReturn |-> e.balance - initialBalance,
     totalTrades |-> e.totalTrades,
     winningTrades |-> e.winningTrades,
     losingTrades |-> e.losingTrades,
     totalProfit |-> e.totalProfit,
     totalLoss |-> e.totalLoss,
     netProfit |-> e.totalProfit - e.totalLoss,
     largestWin |-> e.largestWin,
     largestLoss |-> e.largestLoss,
     maxDrawdown |-> e.maxDrawdown,
     trades |-> e.trades,
     equityHistory |-> e.equityHistory]

\* The end of runBacktest: the results with the wall clock of the run.
finishBacktest(e) ==
    [e EXCEPT !.results =
        calculateResults(e) @@
        [duration |-> 0, startTime |-> e.source.now, endTime |-> e.source.now]]

\* The bars of a run, in time order: a quiet one, one that rises, one that
\* falls and one that does both.
BarShapes ==
    { [high |-> 10010, low |-> 9990, close |-> 10000],
      [high |-> 10030, low |-> 9995, close |-> 10020],
      [high |-> 10005, low |-> 9970, close |-> 9980],
      [high |-> 10030, low |-> 9970, close |-> 10005] }

BuySignal ==
    [action |-> "BUY", lotSize |-> 0, stopLoss |-> 9980, takeProfit |-> 10020,
     price |-> 10000, positionId |-> AllPositions]
SellSignal ==
    [action |-> "SELL", lotSize |-> 0, stopLoss |-> 10020, takeProfit |-> 9980,
     price |-> 10000, positionId |-> AllPositions]
CloseSignal ==
    [action |-> "CLOSE", lotSize |-> 0, stopLoss |-> 0, takeProfit |-> 0,
     price |-> 0, positionId |-> AllPositions]

SignalLists ==
    { <<>>, <<BuySignal>>, <<SellSignal>>, <<CloseSignal>>,
      <<BuySignal, CloseSignal>>, <<SellSignal, CloseSignal>> }

barAt(e, shape) ==
    [time |-> Len(e.equityHistory) + 1] @@ shape

Running == backtest # NoBacktest /\ backtest.results = Null

\* runBacktest up to its loop.
RunBacktest ==
    /\ ~Running
    /\ \E source \in Sources : backtest' = NewBacktest(source)
    /\ UNCHANGED <<riskVars, caseVars, serviceVars, registryVars, engineVars,
                   strategy, clock, botPositions, lastMarketData, grid,
                   analysis, indicators>>

BacktestBar ==
    /\ Running
    /\ Len(backtest.equityHistory) < MaxBacktestBars
    /\ \E shape \in BarShapes, signals \in SignalLists :
          backtest' = runBar(backtest, barAt(backtest, shape), signals)
    /\ UNCHANGED <<riskVars, caseVars, serviceVars, registryVars, engineVars,
                   strategy, clock, botPositions, lastMarketData, grid,
                   analysis, indicators>>

\* runBacktest after its loop.
FinishBacktest ==
    /\ Running
    /\ backtest' = finishBacktest(backtest)
    /\ UNCHANGED <<riskVars, caseVars, serviceVars, registryVars, engineVars,
                   strategy, clock, botPositions, lastMarketData, grid,
                   analysis, indicators>>

NextBacktest == RunBacktest \/ BacktestBar \/ FinishBacktest

SpecBacktest == Init /\ [][NextBacktest]_vars

\* A step that is one turn of runBacktest's loop.
BarRun ==
    /\ Running
    /\ backtest' # NoBacktest
    /\ Len(backtest'.equityHistory) = Len(backtest.equityHistory) + 1

\* The trades that step recorded.
TradesRecorded ==
    { backtest'.trades[k] : k \in Len(backtest.trades) + 1 .. Len(backtest'.trades) }

\* Both levels of a position, or of the trade made of it, lie within the bar.
BothCrossed(position, currentBar) ==
    /\ position.stopLoss # 0
    /\ position.takeProfit # 0
    /\ shouldCloseOnStopLoss(position, currentBar)
    /\ shouldCloseOnTakeProfit(position, currentBar)

SameOpening(trade, position) ==
    /\ trade.openTime = position.openTime
    /\ trade.action = position.action
    /\ trade.openPrice = position.openPrice
    /\ trade.stopLoss = position.stopLoss
    /\ trade.takeProfit = position.takeProfit

StopLossPrice(position) ==
    applySlippage(position.stopLoss, oppositeAction(position.action))

TakeProfitPrice(position) ==
    applySlippage(position.takeProfit, oppositeAction(position.action))

\* C25: a position that is open when a bar crosses both its stop-loss and its
\* take-profit is closed on that bar and its trade carries the close price
\* made of position.stopLoss (the stop-loss with the closing slippage), not
\* the one made of takeProfit or of the bar's close.
C25_StopLossTakesPrecedence ==
    [][BarRun =>
        \A k \in DOMAIN backtest.positions :
            LET position == backtest.positions[k]
            IN  BothCrossed(position, backtest'.currentBar) =>
                    /\ \A j \in DOMAIN backtest'.positions :
                          backtest'.positions[j].id # position.id
                    /\ \E trade \in TradesRecorded : SameOpening(trade, position)
                    /\ \A trade \in TradesRecorded :
                          SameOpening(trade, position) =>
                              /\ trade.closeTime = backtest'.currentBar.time
                              /\ trade.closePrice = StopLossPrice(position)
                              /\ trade.closePrice # TakeProfitPrice(position)
                              /\ trade.closePrice #
                                     applySlippage(backtest'.currentBar.close,
                                         oppositeAction(position.action))]_vars

\* A trade closed by a later bar that crossed both of its levels, at the
\* price made of its stop-loss.
C25_Witness ==
    /\ backtest # NoBacktest
    /\ Len(backtest.equityHistory) > 0
    /\ \E k \in DOMAIN backtest.trades :
          LET trade == backtest.trades[k]
          IN  /\ trade.closeTime = backtest.currentBar.time
              /\ trade.openTime < trade.closeTime
              /\ BothCrossed(trade, backtest.currentBar)
              /\ trade.closePrice = StopLossPrice(trade)

\* The bar's signals hold a CLOSE after an opening signal.
CloseFollowsOpen(signals) ==
    \E i, j \in DOMAIN signals :
        /\ i < j
        /\ signals[i].action \in {"BUY", "SELL"}
        /\ signals[j].action = "CLOSE"

Triggered(trade, currentBar) ==
    \/ shouldCloseOnStopLoss(trade, currentBar)
    \/ shouldCloseOnTakeProfit(trade, currentBar)

\* C26: every trade has its closeTime at or after its openTime, and a trade
\* whose stop-loss or take-profit the closing bar crossed was opened on an
\* earlier bar than that one.
C26_TriggerUsesLaterBars ==
    [][BarRun =>
        \A trade \in TradesRecorded :
            /\ trade.closeTime >= trade.openTime
            /\ Triggered(trade, backtest'.currentBar) =>
                   trade.openTime < trade.closeTime]_vars

\* C26 as the code has it: every trade is closed on the bar being handled,
\* at or after its openTime, and it is closed on its opening bar only by a
\* CLOSE signal that follows the opening signal in the signals of that bar
\* (the close price is then chosen by the stop-loss and take-profit rule on
\* the opening bar's high and low); the positions updatePositions closes
\* were opened on earlier bars.
C26_CloseAtOrAfterOpen ==
    [][BarRun =>
        \A trade \in TradesRecorded :
            /\ trade.closeTime = backtest'.currentBar.time
            /\ trade.closeTime >= trade.openTime
            /\ trade.closeTime = trade.openTime =>
                   CloseFollowsOpen(backtest'.signals)]_vars

\* A trade closed on its opening bar at the price made of its stop-loss,
\* and an earlier one closed by the take-profit of a later bar.
C26_Witness ==
    /\ backtest # NoBacktest
    /\ Len(backtest.equityHistory) > 0
    /\ \E k \in DOMAIN backtest.trades :
          LET trade == backtest.trades[k]
          IN  /\ trade.closeTime = backtest.currentBar.time
              /\ trade.openTime = trade.closeTime
              /\ shouldCloseOnStopLoss(trade, backtest.currentBar)
              /\ trade.closePrice = StopLossPrice(trade)
    /\ \E k \in DOMAIN backtest.trades :
          LET trade == backtest.trades[k]
          IN  /\ trade.openTime < trade.closeTime
              /\ trade.closePrice = TakeProfitPrice(trade)

\* C27: the entry pushed for a bar has equity = balance + the sum of the
\* unrealizedPnL of the positions open after that bar.
C27_EquityIsBalancePlusUnrealized ==
    (backtest # NoBacktest /\ Len(backtest.equityHistory) > 0) =>
        LET entry == backtest.equityHistory[Len(backtest.equityHistory)]
        IN  entry.equity = entry.balance + totalUnrealizedPnL(backtest.positions)

-----------------------------------------------------------------------------
(* Two runBacktest runs over the same bars with the same strategy (the     *)
(* same signals on every bar) and the same options, each with the wall     *)
(* clock and the random source it happens to get.                          *)

BothRunning ==
    /\ backtest # NoBacktest
    /\ backtest.first.results = Null

RunBacktestTwice ==
    /\ ~BothRunning
    /\ \E source1, source2 \in Sources :
          backtest' = [first |-> NewBacktest(source1),
                       second |-> NewBacktest(source2)]
    /\ UNCHANGED <<riskVars, caseVars, serviceVars, registryVars, engineVars,
                   strategy, clock, botPositions, lastMarketData, grid,
                   analysis, indicators>>

BacktestBarTwice ==
    /\ BothRunning
    /\ Len(backtest.first.equityHistory) < MaxBacktestBars
    /\ \E shape \in BarShapes, signals \in SignalLists :
          backtest' =
              [first |-> runBar(backtest.first,
                                barAt(backtest.first, shape), signals),
               second |-> runBar(backtest.second,
                                 barAt(backtest.second, shape), signals)]
    /\ UNCHANGED <<riskVars, caseVars, serviceVars, registryVars, engineVars,
                   strategy, clock, botPositions, lastMarketData, grid,
                   analysis, indicators>>

FinishBacktestTwice ==
    /\ BothRunning
    /\ backtest' = [first |-> finishBacktest(backtest.first),
                    second |-> finishBacktest(backtest.second)]
    /\ UNCHANGED <<riskVars, caseVars, serviceVars, registryVars, engineVars,
                   strategy, clock, botPositions, lastMarketData, grid,
                   analysis, indicators>>

NextBacktestTwice == RunBacktestTwice \/ BacktestBarTwice \/ FinishBacktestTwice

SpecBacktestTwice == Init /\ [][NextBacktestTwice]_vars

\* C28: two runs over the same bars with the same strategy and options
\* return the same results, whatever clock and random source each had.
C28_RunsReturnSameResults ==
    (backtest # NoBacktest /\ backtest.first.results # Null) =>
        backtest.first.results = backtest.second.results

(***************************************************************************)
(* TechnicalIndicators (src/unnamed/part_008).  A value is the quotient    *)
(* [num, den] in lowest terms, so the averages are exact; the cache is the *)
(* set of its entries, each a key <<name, period, data.length>> with the   *)
(* result stored under it.                                                 *)
(***************************************************************************)
MaxSeries == 3
MaxIndicatorCalls == 2

\* 0 / 0 and the element of an array read past its end
NotANumber == [nan |-> TRUE]
UndefinedValue == [undefined |-> TRUE]

cacheHas(memo, key) == \E entry \in memo : entry.key = key

cacheGet(memo, key) == (CHOOSE entry \in memo : entry.key = key).result

cacheSet(memo, key, result) ==
    {entry \in memo : entry.key # key} \cup {[key |-> key, result |-> result]}

RECURSIVE sumOf(_)
sumOf(data) == IF data = <<>> THEN 0 ELSE Head(data) + sumOf(Tail(data))

\* Each indicator gives the cache it leaves and the result it returns.
sma(memo, data, period) ==
    LET key == <<"sma", period, Len(data)>>
        result ==
            [k \in 1 .. Larger(0, Len(data) - period + 1) |->
                Quotient(sumOf(SubSeq(data, k, k + period - 1)), period)]
    IN  IF cacheHas(memo, key)
        THEN [cache |-> memo, result |-> cacheGet(memo, key)]
        ELSE [cache |-> cacheSet(memo, key, result), result |-> result]

\* result[i] = data[i] * 2 / (period + 1) + result[i - 1] * (1 - 2 / (period + 1))
RECURSIVE emaValues(_, _, _)
emaValues(data, period, n) ==
    IF n = 0 THEN <<UndefinedValue>>
    ELSE IF n = 1 THEN <<Quotient(data[1], 1)>>
    ELSE LET before == emaValues(data, period, n - 1)
             last == before[n - 1]
         IN  Append(before,
                    Quotient(2 * data[n] * last.den + (period - 1) * last.num,
                             (period + 1) * last.den))

ema(memo, data, period) ==
    LET key == <<"ema", period, Len(data)>>
        result == emaValues(data, period, Len(data))
    IN  IF cacheHas(memo, key)
        THEN [cache |-> memo, result |-> cacheGet(memo, key)]
        ELSE [cache |-> cacheSet(memo, key, result), result |-> result]

\* 100 - 100 / (1 + gain / loss)
rsiValue(gain, loss) ==
    IF loss.num = 0
    THEN IF gain.num = 0 THEN NotANumber ELSE Quotient(100, 1)
    ELSE Quotient(100 * gain.num * loss.den,
                  gain.num * loss.den + loss.num * gain.den)

rsi(memo, data, period) ==
    LET key == <<"rsi", period, Len(data)>>
        changes == [k \in 1 .. Larger(0, Len(data) - 1) |-> data[k + 1] - data[k]]
        gains == [k \in DOMAIN changes |->
                     IF changes[k] > 0 THEN changes[k] ELSE 0]
        losses == [k \in DOMAIN changes |->
                      IF changes[k] < 0 THEN Abs(changes[k]) ELSE 0]
        avgGains == sma(memo, gains, period)
        avgLosses == sma(avgGains.cache, losses, period)
        result == [k \in DOMAIN avgGains.result |->
                      rsiValue(avgGains.result[k], avgLosses.result[k])]
    IN  IF cacheHas(memo, key)
        THEN [cache |-> memo, result |-> cacheGet(memo, key)]
        ELSE [cache |-> cacheSet(avgLosses.cache, key, result),
              result |-> result]

SeriesValues == {1, 3}
Series == UNION { [1 .. n -> SeriesValues] : n \in 0 .. MaxSeries }
Periods == 1 .. MaxSeries + 1

NewIndicators ==
    /\ indicators' = [cache |-> {}, calls |-> 0, call |-> Null]
    /\ UNCHANGED <<riskVars, caseVars, serviceVars, registryVars, engineVars,
                   strategy, clock, botPositions, lastMarketData, grid,
                   analysis, backtest>>

CanCall ==
    /\ indicators # NoIndicators
    /\ indicators.calls < MaxIndicatorCalls

\* The instance after a call; returned is what the indicator gave.
afterCall(name, data, period, returned) ==
    [cache |-> returned.cache,
     calls |-> indicators.calls + 1,
     call |-> [name |-> name, data |-> data, period |-> period,
               result |-> returned.result]]

CallSma ==
    /\ CanCall
    /\ \E data \in Series, period \in Periods :
          indicators' = afterCall("sma", data, period,
                                  sma(indicators.cache, data, period))
    /\ UNCHANGED <<riskVars, caseVars, serviceVars, registryVars, engineVars,
                   strategy, clock, botPositions, lastMarketData, grid,
                   analysis, backtest>>

CallEma ==
    /\ CanCall
    /\ \E data \in Series, period \in Periods :
          indicators' = afterCall("ema", data, period,
                                  ema(indicators.cache, data, period))
    /\ UNCHANGED <<riskVars, caseVars, serviceVars, registryVars, engineVars,
                   strategy, clock, botPositions, lastMarketData, grid,
                   analysis, backtest>>

CallRsi ==
    /\ CanCall
    /\ \E data \in Series, period \in Periods :
          indicators' = afterCall("rsi", data, period,
                                  rsi(indicators.cache, data, period))
    /\ UNCHANGED <<riskVars, caseVars, serviceVars, registryVars, engineVars,
                   strategy, clock, botPositions, lastMarketData, grid,
                   analysis, backtest>>

NextIndicators == NewIndicators \/ CallSma \/ CallEma \/ CallRsi

SpecIndicators == Init /\ [][NextIndicators]_vars

\* What the last call returns on an instance that has made no call yet.
FreshResult(call) ==
    IF call.name = "sma" THEN sma({}, call.data, call.period).result
    ELSE IF call.name = "rsi" THEN rsi({}, call.data, call.period).result
    ELSE ema({}, call.data, call.period).result

LastCall == indicators # NoIndicators /\ indicators.calls > 0

\* C29: whatever calls came before on the instance, sma and rsi return the
\* value computed from the data of the call, which is the value a new
\* instance returns for it.
C29_IndicatorsArePure ==
    (LastCall /\ indicators.call.name \in {"sma", "rsi"}) =>
        indicators.call.result = FreshResult(indicators.call)

\* C30: sma and ema return data.length - period + 1 values for a period
\* from 1 to data.length and none for a longer period.
C30_OutputLength ==
    (LastCall /\ indicators.call.name \in {"sma", "ema"}) =>
        Len(indicators.call.result) =
            IF indicators.call.period <= Len(indicators.call.data)
            THEN Len(indicators.call.data) - indicators.call.period + 1
            ELSE 0

-----------------------------------------------------------------------------
(* GridStrategy made with config.gridLevels, and with or without the       *)
(* bounds, given to the constructor.  The bounds given are such that the   *)
(* spacing is a whole number of pips for every number of levels drawn.     *)

MaxLevels == 6
LevelBars == 2
GivenBounds ==
    { [lowerBound |-> 0, upperBound |-> 0],
      [lowerBound |-> 9400, upperBound |-> 10000],
      [lowerBound |-> 9700, upperBound |-> 10000],
      [lowerBound |-> 9700, upperBound |-> 10300] }
LevelCloses == {9750, 10000, 10500}

\* new GridStrategy({gridLevels, lowerBound, upperBound}); the config given
\* overrides the defaults
CreateGridWithLevels ==
    /\ grid = NoGrid
    /\ \E count \in 3 .. MaxLevels, given \in GivenBounds :
          grid' = [bars |-> 0] @@
                  [NewGrid(FALSE) EXCEPT
                      !.config = [gridLevels |-> count] @@
                                 [@ EXCEPT !.lowerBound = given.lowerBound,
                                           !.upperBound = given.upperBound]]
    /\ UNCHANGED <<riskVars, caseVars, engineVars, strategy, clock, botPositions,
                   lastMarketData, toolVars>>

LevelsAnalyze == GridAnalyzeOf(LevelCloses, LevelBars, {FALSE})

NextLevels == CreateGridWithLevels \/ LevelsAnalyze \/ Tick

SpecLevels == Init /\ [][NextLevels]_vars

\* A step in which initializeGridOrders ran: the first analyze call of an
\* instance, or a rebalance.
OrdersInitialized ==
    /\ grid # NoGrid
    /\ grid' # NoGrid
    /\ grid'.bars = grid.bars + 1
    /\ \/ ~grid.isInitialized /\ grid'.isInitialized
       \/ grid'.lastRebalance # grid.lastRebalance

PendingOrders(g) ==
    {k \in DOMAIN g.gridOrders : g.gridOrders[k].status = "pending"}

\* C31: with gridLevels = N >= 3 the grid made has exactly N levels, the
\* first at the lower bound, the last at the upper bound, any two
\* neighbours (upper - lower) / (N - 1) apart; and exactly N - 2 orders are
\* pending, one at the price of each level between the bounds and none at
\* the first or the last level.
C31_LevelsAndInteriorOrders ==
    [][OrdersInitialized =>
        LET count == gridLevelCount(grid'.config)
            levels == grid'.gridLevels
            pending == PendingOrders(grid')
        IN  /\ Len(levels) = count
            /\ levels[1].price = grid'.config.lowerBound
            /\ levels[count].price = grid'.config.upperBound
            /\ \A k \in 1 .. count - 1 :
                  (levels[k + 1].price - levels[k].price) * (count - 1) =
                      grid'.config.upperBound - grid'.config.lowerBound
            /\ Cardinality(pending) = count - 2
            /\ grid'.orderCount = grid.orderCount + count - 2
            /\ \A i \in 2 .. count - 1 :
                  Cardinality({k \in pending :
                      /\ grid'.gridOrders[k].level.level = i - 1
                      /\ grid'.gridOrders[k].entryPrice = levels[i].price}) = 1
            /\ \A k \in pending :
                  grid'.gridOrders[k].level.type = "grid"]_vars

\* The grid of the spec's example: five levels, three orders pending between
\* the bounds.
C31_Witness ==
    /\ grid # NoGrid
    /\ grid.isInitialized
    /\ grid.bars = 1
    /\ gridLevelCount(grid.config) = 5
    /\ Len(grid.gridLevels) = 5
    /\ Cardinality(PendingOrders(grid)) = 3

-----------------------------------------------------------------------------
(* RiskManager.validateSignal on signals whose stop distance divides the   *)
(* risk amount, with no position open and a new risk state, so that the    *)
(* signal is accepted and sized.                                           *)

SizingSignals ==
    { [symbol |-> symbol, entryPrice |-> entryPrice,
       stopLoss |-> entryPrice - distance, takeProfit |-> entryPrice + reward,
       lotSize |-> lotSize, atr |-> atr] :
        symbol \in {"EURUSD", "GBPUSD"}, entryPrice \in {100, 1000},
        distance \in {0, 1, 2, 4, 5}, reward \in {3, 8},
        lotSize \in {1, 100}, atr \in {5} }

InitSizing ==
    /\ rm = InitRiskManager
    /\ today = 1
    /\ riskCase \in [signal : SizingSignals, positions : {<<>>}]
    /\ rv = NotCalled
    /\ InitEngine
    /\ InitTools

NextSizing == RiskValidate

SpecSizing == InitSizing /\ [][NextSizing]_vars

\* C32: the lot size of an accepted signal times its stop distance is the
\* risk amount, accountBalance * maxRiskPerTrade.
C32_RiskAmountRespected ==
    (rv.called /\ rv.result # Null) =>
        rv.result.lotSize * Abs(riskCase.signal.entryPrice - riskCase.signal.stopLoss)
            = (accountBalance * maxRiskPerTradePct) \div 100

-----------------------------------------------------------------------------
(* DCAStrategy.addSafetyOrder is a method of the strategy object: beside   *)
(* the bars of the bot, a caller hands it a safety order for an active     *)
(* deal.  analysis counts these calls and names the deal of the last one.  *)

MaxDirectCalls == 1
DirectCloses == {80, 86}

DirectCalls == IF analysis = NoAnalysis THEN 0 ELSE analysis.calls

AddSafetyOrderCall ==
    /\ DirectCalls < MaxDirectCalls
    /\ \E i \in DOMAIN strategy.activeDeals, close \in DirectCloses :
          LET deal == strategy.activeDeals[i]
          IN  /\ strategy' = addSafetyOrder(strategy, deal.id,
                                            createSafetyOrder(deal, close))
              /\ analysis' = [call |-> "addSafetyOrder", dealId |-> deal.id,
                              calls |-> DirectCalls + 1]
    /\ UNCHANGED <<riskVars, caseVars, engineVars, clock, botPositions,
                   lastMarketData, grid, backtest, indicators>>

NextDirect == HandleBotBar \/ Tick \/ AddSafetyOrderCall

SpecDirect == Init /\ [][NextDirect]_vars

\* C33: addSafetyOrder on a deal that holds maxSafetyOrders safety orders
\* leaves the deal's safetyOrderCount, safetyOrders, totalVolume,
\* totalInvested, averagePrice and takeProfitPrice as they were.
C33_FullDealRefusesSafetyOrder ==
    [][(analysis' # analysis) =>
        \A i \in DOMAIN strategy.activeDeals :
            LET deal == strategy.activeDeals[i]
            IN  (deal.id = analysis'.dealId
                     /\ deal.safetyOrderCount >= deal.maxSafetyOrders) =>
                    /\ i \in DOMAIN strategy'.activeDeals
                    /\ strategy'.activeDeals[i].safetyOrderCount = deal.safetyOrderCount
                    /\ strategy'.activeDeals[i].safetyOrders = deal.safetyOrders
                    /\ strategy'.activeDeals[i].totalVolume = deal.totalVolume
                    /\ strategy'.activeDeals[i].totalInvested = deal.totalInvested
                    /\ strategy'.activeDeals[i].averagePrice = deal.averagePrice
                    /\ strategy'.activeDeals[i].takeProfitPrice = deal.takeProfitPrice]_vars

-----------------------------------------------------------------------------
(* TradingEngine.closePosition(bot, positionId, exitPrice) called with any *)
(* position id, held by the bot or not.  analysis counts the calls and     *)
(* holds the id and the outcome of the last one.                           *)

MaxCloseCalls == 2
ExitPrices == {101}

\* closePosition without the test that the position exists: the fields of
\* the missing position read as undefined, the profit is NaN and is booked
\* as a loss
closePositionCallUnchecked(bot, positionId, exitPrice) ==
    LET held == {i \in DOMAIN bot.positions : bot.positions[i].id = positionId}
    IN  IF held = {}
        THEN [bot |-> [bot EXCEPT !.performance.losingTrades = @ + 1,
                                  !.performance.totalLoss = NaN],
              threw |-> FALSE]
        ELSE [bot |-> closePosition(bot, CHOOSE i \in held : TRUE, exitPrice),
              threw |-> FALSE]

\* closePosition: bot.positions.get(positionId), the throw if there is none
closePositionCall(bot, positionId, exitPrice) ==
    LET held == {i \in DOMAIN bot.positions : bot.positions[i].id = positionId}
    IN  IF held = {}
        THEN [bot |-> bot, threw |-> TRUE]
        ELSE [bot |-> closePosition(bot, CHOOSE i \in held : TRUE, exitPrice),
              threw |-> FALSE]

CloseCalls == IF analysis = NoAnalysis THEN 0 ELSE analysis.calls

ClosePositionById(b) ==
    /\ bots[b] # NoBot
    /\ CloseCalls < MaxCloseCalls
    /\ \E positionId \in 1 .. MaxBars + 1, exitPrice \in ExitPrices :
          LET closed == closePositionCall(bots[b], positionId, exitPrice)
          IN  /\ bots' = [bots EXCEPT ![b] = closed.bot]
              /\ analysis' = [call |-> "closePosition", bot |-> b,
                              positionId |-> positionId, threw |-> closed.threw,
                              calls |-> CloseCalls + 1]
    /\ UNCHANGED <<riskVars, caseVars, registryVars, serviceVars, calls, cleanups,
                   strategy, clock, botPositions, lastMarketData, grid,
                   backtest, indicators>>

NextClose ==
    \/ InitializeBot("A")
    \/ StartBot("A")
    \/ DeliverBar("A")
    \/ AnalyzeNoSignal("A")
    \/ AnalyzeSignal("A")
    \/ PlaceOrderDone("A")
    \/ StoreTradeDone("A")
    \/ ClosePositionById("A")

SpecClose == Init /\ [][NextClose]_vars

Holds(bot, positionId) ==
    \E i \in DOMAIN bot.positions : bot.positions[i].id = positionId

Counted(bot) == bot.performance.winningTrades + bot.performance.losingTrades

\* C34: closePosition for an id the bot does not hold (closed before, or
\* never opened) throws and leaves bot.positions and bot.performance as they
\* were; for an id the bot holds it books one win or loss and removes the
\* position, so that no position is booked twice.
C34_MissingPositionIsRefused ==
    [][(analysis' # analysis) =>
        LET b == analysis'.bot
            positionId == analysis'.positionId
        IN  IF Holds(bots[b], positionId)
            THEN /\ ~analysis'.threw
                 /\ ~Holds(bots'[b], positionId)
                 /\ Counted(bots'[b]) = Counted(bots[b]) + 1
            ELSE /\ analysis'.threw
                 /\ bots'[b].positions = bots[b].positions
                 /\ bots'[b].performance = bots[b].performance]_vars

\* The second call for a position that the first call closed: it threw, one
\* trade is booked and another position is still held.
C34_Witness ==
    /\ analysis # NoAnalysis
    /\ analysis.calls = 2
    /\ analysis.threw
    /\ analysis.positionId = 1
    /\ bots["A"].performance.totalTrades = 2
    /\ Counted(bots["A"]) = 1
    /\ Holds(bots["A"], 2)

-----------------------------------------------------------------------------
(* The ledger of a finished backtest run, under SpecBacktest               *)

RECURSIVE sumOfPnl(_)
sumOfPnl(trades) ==
    IF trades = <<>> THEN 0 ELSE Head(trades).pnl + sumOfPnl(Tail(trades))

\* C35: the results of a run that ends with no position open have
\* finalBalance - initialBalance equal to the sum of the pnl of the trades,
\* which is totalProfit - totalLoss.
C35_LedgerConservesMoney ==
    (backtest # NoBacktest /\ backtest.results # Null /\ backtest.positions = <<>>) =>
        /\ backtest.results.finalBalance - backtest.results.initialBalance
               = sumOfPnl(backtest.results.trades)
        /\ backtest.results.finalBalance - backtest.results.initialBalance
               = backtest.results.netProfit

-----------------------------------------------------------------------------
(* What cleanupBot does to the other bots, under Spec                      *)

\* C36: cleanupBot(A) tears down only A's resources: the stream of every other registered
\* bot B stays connected and B's broker connection stays registered with the broker
\* integration, also when B trades A's symbol through A's broker id.
C36_CleanupLeavesOtherBots ==
    [][\A a \in BotIds : CleanupRelease(a) =>
          \A b \in activeBots \ {a} :
              /\ sockets[b] = "open" => sockets'[b] = "open"
              /\ (b \in brokerConnections /\ BrokerId \in brokerLinks) =>
                     BrokerId \in brokerLinks']_vars

\* C37: a stream that MarketDataService.disconnect tore down is connected again only by a
\* new initializeBot: on every other step a closed socket stays closed and a symbol without
\* a registered connection stays without one.
C37_TornDownStreamStaysDown ==
    [][(~ \E c \in BotIds : InitializeBot(c)) =>
          /\ \A b \in BotIds : sockets[b] = "closed" => sockets'[b] = "closed"
          /\ \A symbol \in Symbols :
                 connections[symbol] = "none" => connections'[symbol] = "none"]_vars

-----------------------------------------------------------------------------
(* The bounds after a rebalance, under SpecGrid                            *)

\* this step is an analyze call that rebalances because the bar's close is outside the
\* bounds, the cooldown having elapsed
BreachRebalance ==
    /\ grid # NoGrid
    /\ grid' # NoGrid
    /\ grid'.bars = grid.bars + 1
    /\ grid.isInitialized
    /\ gridValidateMarketConditions(grid, lastMarketData')
    /\ shouldRebalanceGrid(grid, lastMarketData', clock, FALSE)

\* C38: after a rebalance that a breach of the outer bounds triggered, the recomputed
\* bounds contain the bar's close.
C38_RebalancedBoundsContainClose ==
    [][BreachRebalance =>
          /\ grid'.config.lowerBound <= lastMarketData'.close
          /\ lastMarketData'.close <= grid'.config.upperBound]_vars

-----------------------------------------------------------------------------
(* Whether analyze keeps handling bars, under SpecGridRun                  *)

\* the closes that reach the price of a pending order or the stop-loss or take-profit
\* price of an open position
CrossingCloses(g) ==
    {g.gridOrders[k].entryPrice :
        k \in {i \in DOMAIN g.gridOrders : g.gridOrders[i].status = "pending"}}
    \cup {g.positions[k].takeProfitPrice : k \in DOMAIN g.positions}
    \cup {g.positions[k].stopLossPrice : k \in DOMAIN g.positions}

\* analyze returns null at its first test for every bar
Halted == grid # NoGrid /\ Len(grid.gridOrders) >= maxGridOrders

\* no step ends the halt: analyze alone changes gridOrders, and it returns at once
HaltIsPermanent == [][Halted => Halted' /\ grid' = grid]_vars

\* C39: in every reachable state analyze still handles a bar whose close reaches the price
\* of a pending order or the stop-loss or take-profit price of an open position: it does not
\* return null at its first test.
C39_CrossingBarIsHandled ==
    grid # NoGrid =>
        \A close \in CrossingCloses(grid) :
            close > 0 =>
                gridValidateMarketConditions(grid, [symbol |-> BotSymbol, close |-> close])

-----------------------------------------------------------------------------
(* DCAStrategy.analyze calls in flight at once.  analyze has one await, of  *)
(* calculateIndicators: a call runs from its entry to that await, and from  *)
(* there to its return, without another call running in between.           *)

\* at most MaxInFlight analyze calls wait at the await at once
MaxInFlight == 2
\* analyze is called at most MaxAnalyses times
MaxAnalyses == 2
ConcurrentCloses == {86, 100}

\* analyze up to its await: whether the call goes on to calculateIndicators
analyzeSuspends(s, marketData, now) ==
    validateMarketConditions(s, marketData) /\ ~isInCooldown(s, now)

\* analyze from its await on, the test of hasActiveDeal left out
analyzeResumedUnchecked(s, marketData, startSignal) ==
    IF startSignal THEN createBaseOrder(s, marketData)
    ELSE LET dealSignals == procesActiveDeals(s, marketData)
         IN  [strategy |-> dealSignals.strategy,
              signal |-> IF Len(dealSignals.signals) > 0 THEN dealSignals.signals[1] ELSE Null]

\* analyze from its await on; startSignal is what checkDealStartCondition makes of the
\* indicators of the call's bar
analyzeResumed(s, marketData, startSignal) ==
    IF startSignal /\ ~hasActiveDeal(s, marketData.symbol)
    THEN createBaseOrder(s, marketData)
    ELSE LET dealSignals == procesActiveDeals(s, marketData)
         IN  [strategy |-> dealSignals.strategy,
              signal |-> IF Len(dealSignals.signals) > 0 THEN dealSignals.signals[1] ELSE Null]

\* the calls waiting at the await, and the call that returned last
WaitingCalls == IF analysis = NoAnalysis THEN <<>> ELSE analysis.waiting
ReturnedCall == IF analysis = NoAnalysis THEN Null ELSE analysis.returned
AnalyzeCalls == IF analysis = NoAnalysis THEN 0 ELSE analysis.calls

\* analyze is called for a bar and runs to its await, or returns null before it; the call
\* keeps its bar, and nextDealId tells which deals were made after it began
AnalyzeBegin ==
    /\ Len(WaitingCalls) < MaxInFlight
    /\ AnalyzeCalls < MaxAnalyses
    /\ \E symbol \in DcaSymbols, close \in ConcurrentCloses, startSignal \in BOOLEAN :
          LET marketData == [symbol |-> symbol, close |-> close, timestamp |-> clock]
              call == [marketData |-> marketData, startSignal |-> startSignal,
                       nextDealId |-> generateDealId(strategy)]
          IN  analysis' =
                     IF analyzeSuspends(strategy, marketData, clock)
                     THEN [waiting |-> Append(WaitingCalls, call), returned |-> ReturnedCall,
                           calls |-> AnalyzeCalls + 1]
                     ELSE [waiting |-> WaitingCalls, returned |-> call,
                           calls |-> AnalyzeCalls + 1]
    /\ UNCHANGED <<riskVars, caseVars, engineVars, strategy, clock, botPositions,
                   lastMarketData, grid, backtest, indicators>>

\* a waiting call resumes and runs to its return
AnalyzeResume ==
    /\ \E k \in DOMAIN WaitingCalls :
          LET call == WaitingCalls[k]
          IN  /\ call.startSignal => generateDealId(strategy) <= MaxDeals
              /\ strategy' = analyzeResumed(strategy, call.marketData, call.startSignal).strategy
              /\ analysis' = [waiting |-> RemoveAt(WaitingCalls, k), returned |-> call,
                              calls |-> AnalyzeCalls]
    /\ UNCHANGED <<riskVars, caseVars, engineVars, clock, botPositions, lastMarketData, grid,
                   backtest, indicators>>

NextConcurrent == AnalyzeBegin \/ AnalyzeResume \/ Tick

SpecConcurrent == Init /\ [][NextConcurrent]_vars

ActiveDealsOf(symbol) ==
    {i \in DOMAIN strategy.activeDeals :
        strategy.activeDeals[i].symbol = symbol /\ strategy.activeDeals[i].status = "active"}

\* C40: a DCAStrategy instance holds at most one active deal per symbol, also while several
\* analyze calls for the symbol are in flight and each of them has a start signal.
C40_OneActiveDealPerSymbol ==
    \A symbol \in DcaSymbols : Cardinality(ActiveDealsOf(symbol)) <= 1

\* a call with a start signal has returned while the symbol has an active deal that was made
\* after the call began, by another call with a start signal that was in flight with it
C40_Witness ==
    /\ ReturnedCall # Null
    /\ ReturnedCall.startSignal
    /\ \E i \in ActiveDealsOf(ReturnedCall.marketData.symbol) :
          strategy.activeDeals[i].id >= ReturnedCall.nextDealId
    /\ Cardinality(ActiveDealsOf(ReturnedCall.marketData.symbol)) = 1
    /\ generateDealId(strategy) = ReturnedCall.nextDealId + 1

====
